---------------------------- MODULE Spec2Model ----------------------------
(***************************************************************************)
(* Vayu Drishti: the deterministic post-processing core of the AQI         *)
(* forecaster.                                                             *)
(*                                                                         *)
(*   ForecastingEngine   (forecasting_engine.py)                           *)
(*   AQIForecaster       (aqi_forecasting_model.py)                        *)
(*   AQIHealthAdvisor    (aqi_forecasting_model.py)                        *)
(*                                                                         *)
(* Number representation.  Python floats are modelled in fixed point:      *)
(*   - an AQI value v is the integer v * E4 (four decimals);               *)
(*   - a datetime is the number of hours since 2025-01-01 00:00;           *)
(*   - a distance is a whole number of 50 m steps (floor), so the code's   *)
(*     test "distance < 0.1 km" is exactly "steps < 2";                    *)
(*   - an IDW weight or interpolated value is an exact fraction [num,den]. *)
(* A call's outcome is a record: outcome "returned" carries the returned   *)
(* value, outcome "raised" carries the Python exception class.             *)
(***************************************************************************)
EXTENDS Integers, Sequences, FiniteSets, TLC

VARIABLES
    model,             \* ForecastingEngine.model: "None" or a loaded model
    model_metrics,     \* ForecastingEngine.model_metrics: test_rmse, if any
    forecast_history,  \* ForecastingEngine.forecast_history
    forecast_ret,      \* outcome of the last ForecastingEngine call
    lstm_model,        \* AQIForecaster.lstm_model: "None" or a fitted model
    rf_model,          \* AQIForecaster.rf_model:   "None" or a fitted model
    ensemble_ret,      \* outcome of the last predict_ensemble call
    spatial_ret,       \* outcome of the last interpolation / fusion call
    health_ret,        \* outcome of the last AQIHealthAdvisor call
    failed_requests,   \* AdvancedCPCBAirQualityScraper.failed_requests
    request            \* the make_request_with_retry call in progress

vars == <<model, model_metrics, forecast_history, forecast_ret,
          lstm_model, rf_model, ensemble_ret, spatial_ret, health_ret,
          failed_requests, request>>

engineVars == <<model, model_metrics, forecast_history, forecast_ret>>
scraperVars == <<failed_requests, request>>
othersThanEngine ==
    <<lstm_model, rf_model, ensemble_ret, spatial_ret, health_ret, scraperVars>>
ensembleVars == <<lstm_model, rf_model, ensemble_ret>>

NoCall == [op |-> "none", outcome |-> "none"]

Raised(opname, a, exc) ==
    [op |-> opname, outcome |-> "raised", error |-> exc, args |-> a]

Returned(opname, a, val) ==
    [op |-> opname, outcome |-> "returned", args |-> a, result |-> val]

(***************************************************************************)
(* Fixed point and small helpers                                           *)
(***************************************************************************)
E4 == 100 * 100

Max2(a, b) == IF a >= b THEN a ELSE b
Min2(a, b) == IF a <= b THEN a ELSE b
Abs(a) == IF a >= 0 THEN a ELSE 0 - a

(***************************************************************************)
(* datetime: hours since 2025-01-01 00:00 (a Wednesday, weekday() = 2)     *)
(***************************************************************************)
CumDays == <<0, 31, 59, 90, 120, 151, 181, 212, 243, 273, 304, 334, 365>>

HourOf(t) == t % 24
WeekdayOf(t) == (2 + (t \div 24)) % 7
MonthOf(t) ==
    LET doy == (t \div 24) % 365
    IN  CHOOSE m \in 1..12 : CumDays[m] <= doy /\ doy < CumDays[m + 1]

(***************************************************************************)
(* AdvancedCPCBAirQualityScraper.make_request_with_retry                   *)
(*                                                                         *)
(* One call is a loop over range(retries + 1).  Every pass sleeps, sends   *)
(* one GET and either returns the response or catches the                  *)
(* RequestException; the network decides which.  request holds the call in *)
(* progress: its arguments, the loop variable and what the attempts made   *)
(* so far came to.                                                         *)
(***************************************************************************)
max_retries == 3

MaxFailed == 2

Urls == {"base_url", "endpoint"}

\* the retries argument: None (not given) or an int
NoRetries == [given |-> FALSE, value |-> 0]
Retries(n) == [given |-> TRUE, value |-> n]
RetriesInputs == {NoRetries} \cup {Retries(n) : n \in -1..2}

NoRequest ==
    [pc |-> "idle", url |-> "", retries |-> 0, attempt |-> 0,
     outcomes |-> <<>>, response |-> "None"]

ScraperIdle == failed_requests = <<>> /\ request = NoRequest

\* entry: retries defaults to self.max_retries, the loop starts at attempt 0
MakeRequestWithRetry(url, retries) ==
    /\ request.pc \in {"idle", "done"}
    /\ Len(failed_requests) < MaxFailed
    /\ request' =
           [pc |-> "loop", url |-> url,
            retries |-> IF retries.given THEN retries.value ELSE max_retries,
            attempt |-> 0, outcomes |-> <<>>, response |-> "None"]
    /\ UNCHANGED failed_requests
    /\ UNCHANGED <<engineVars, ensembleVars, spatial_ret, health_ret>>

\* one pass of the loop body: the GET succeeds and the response is
\* returned, or it raises RequestException and the call backs off and goes
\* round again, or, on the last pass, records the URL and returns None
Attempt(ok) ==
    /\ request.pc = "loop"
    /\ request.attempt < request.retries + 1
    /\ IF ok
       THEN /\ request' = [request EXCEPT !.pc = "done",
                               !.outcomes = Append(@, "ok"),
                               !.response = "Response"]
            /\ UNCHANGED failed_requests
       ELSE IF request.attempt < request.retries
       THEN /\ request' = [request EXCEPT !.attempt = @ + 1,
                               !.outcomes = Append(@, "RequestException")]
            /\ UNCHANGED failed_requests
       ELSE /\ failed_requests' = Append(failed_requests, request.url)
            /\ request' = [request EXCEPT !.pc = "done",
                               !.outcomes = Append(@, "RequestException")]
    /\ UNCHANGED <<engineVars, ensembleVars, spatial_ret, health_ret>>

\* the range is exhausted without a return inside the loop: the function
\* falls off its end and returns None
RangeExhausted ==
    /\ request.pc = "loop"
    /\ ~(request.attempt < request.retries + 1)
    /\ request' = [request EXCEPT !.pc = "done"]
    /\ UNCHANGED failed_requests
    /\ UNCHANGED <<engineVars, ensembleVars, spatial_ret, health_ret>>

ScraperNext ==
    \/ \E url \in Urls, retries \in RetriesInputs :
           MakeRequestWithRetry(url, retries)
    \/ \E ok \in BOOLEAN : Attempt(ok)
    \/ RangeExhausted

(***************************************************************************)
(* ForecastingEngine: temporal patterns                                    *)
(***************************************************************************)
DIURNAL_PEAK_HOUR == 14
RUSH_HOUR_MORNING == 8
RUSH_HOUR_EVENING == 20
\* WEEKEND_REDUCTION = 0.8, in tenths
WEEKEND_REDUCTION == 8

SEASONAL_FACTORS ==
    [s \in {"winter", "spring", "monsoon", "autumn"} |->
        CASE s = "winter" -> 13
          [] s = "spring" -> 10
          [] s = "monsoon" -> 7
          [] s = "autumn" -> 11]

\* a variant that counts December as autumn
get_season_of_month_short_winter(month) ==
    IF month \in {1, 2} THEN "winter"
    ELSE IF month \in {3, 4, 5} THEN "spring"
    ELSE IF month \in {6, 7, 8, 9} THEN "monsoon"
    ELSE "autumn"

get_season_of_month(month) ==
    IF month \in {12, 1, 2} THEN "winter"
    ELSE IF month \in {3, 4, 5} THEN "spring"
    ELSE IF month \in {6, 7, 8, 9} THEN "monsoon"
    ELSE "autumn"

get_season(date) == get_season_of_month(MonthOf(date))

\* round(30 * cos(k * 2*pi/24)) for k = 0..12, k the distance in hours from
\* DIURNAL_PEAK_HOUR (cos is even and 24-periodic)
Cos30 == <<30, 29, 26, 21, 15, 8, 0, -8, -15, -21, -26, -29, -30>>

\* a variant whose cosine term has the amplitude 1.2
DiurnalFactorPctDeep(hour) ==
    LET k == Abs(hour - DIURNAL_PEAK_HOUR)
        kk == IF k > 12 THEN 24 - k ELSE k
    IN  100 + 4 * Cos30[kk + 1]

\* pattern_factor = 1.0 + 0.3 * cos(hour_angle), in hundredths
DiurnalFactorPct(hour) ==
    LET k == Abs(hour - DIURNAL_PEAK_HOUR)
        kk == IF k > 12 THEN 24 - k ELSE k
    IN  100 + Cos30[kk + 1]

add_diurnal_pattern(base_aqi, hour) ==
    (base_aqi * DiurnalFactorPct(hour)) \div 100

\* a variant that boosts on every day of the week
RushHourBoostEveryDay(hour, is_weekday) ==
    IF 7 <= hour /\ hour <= 9
    THEN (25 * E4 * (2 - Abs(hour - RUSH_HOUR_MORNING))) \div 2
    ELSE IF 19 <= hour /\ hour <= 21
         THEN (30 * E4 * (2 - Abs(hour - RUSH_HOUR_EVENING))) \div 2
    ELSE 0

\* rush_hour_boost, in E4 units: 25 * (1 - d/2) and 30 * (1 - d/2)
RushHourBoost(hour, is_weekday) ==
    IF ~is_weekday THEN 0
    ELSE IF 7 <= hour /\ hour <= 9
         THEN (25 * E4 * (2 - Abs(hour - RUSH_HOUR_MORNING))) \div 2
    ELSE IF 19 <= hour /\ hour <= 21
         THEN (30 * E4 * (2 - Abs(hour - RUSH_HOUR_EVENING))) \div 2
    ELSE 0

add_rush_hour_peaks(base_aqi, hour, is_weekday) ==
    base_aqi + RushHourBoost(hour, is_weekday)

add_weekly_variation(base_aqi, is_weekend) ==
    IF is_weekend THEN (base_aqi * WEEKEND_REDUCTION) \div 10
    ELSE base_aqi

add_seasonal_factor(base_aqi, date) ==
    (base_aqi * SEASONAL_FACTORS[get_season(date)]) \div 10

(***************************************************************************)
(* ForecastingEngine: the trained-model collaborator                       *)
(*                                                                         *)
(* self.model is None or a fitted regressor with predict().  Nothing in    *)
(* the engine constrains what it returns: a forest averages its training   *)
(* targets, a regressor unpickled by load_model may extrapolate below      *)
(* zero.  A feature row is named by the prediction it gets.                *)
(***************************************************************************)
FeatureRows == {"typical", "extrapolated"}

\* self.model.predict(features)[0], in E4 units
Predict(m, features) ==
    CASE features = "typical" -> 100 * E4
      [] features = "extrapolated" -> (0 - 20) * E4

NoMetrics == [has_test_rmse |-> FALSE, test_rmse |-> 0]
Metrics(r) == [has_test_rmse |-> TRUE, test_rmse |-> r]

\* 7.89 (an RMSE figure the source quotes) and a perfect fit
RmseValues == {0, 78900}

\* self.model_metrics.get('test_rmse', 4.57)
TestRmse(metrics) ==
    IF metrics.has_test_rmse THEN metrics.test_rmse ELSE 45700

(***************************************************************************)
(* ForecastingEngine.generate_forecast                                     *)
(***************************************************************************)
\* a variant that only raises the horizon to 1 and never caps it
ClampHoursUncapped(forecast_hours) == Max2(1, forecast_hours)

\* forecast_hours = max(1, min(72, forecast_hours)) when out of [1, 72]
ClampHours(forecast_hours) ==
    IF forecast_hours < 1 \/ forecast_hours > 72
    THEN Max2(1, Min2(72, forecast_hours))
    ELSE forecast_hours

\* a variant that adds the rush-hour boost to the base value first and
\* scales afterwards
PatternAdjustedRushFirst(base_aqi, forecast_time) ==
    LET hour == HourOf(forecast_time)
        is_weekday == WeekdayOf(forecast_time) < 5
        is_weekend == ~is_weekday
        aqi1 == add_rush_hour_peaks(base_aqi, hour, is_weekday)
        aqi2 == add_seasonal_factor(aqi1, forecast_time)
        aqi3 == add_weekly_variation(aqi2, is_weekend)
        aqi4 == add_diurnal_pattern(aqi3, hour)
    IN  aqi4

\* the include_patterns branch: seasonal, weekly, diurnal, rush hour
PatternAdjusted(base_aqi, forecast_time) ==
    LET hour == HourOf(forecast_time)
        is_weekday == WeekdayOf(forecast_time) < 5
        is_weekend == ~is_weekday
        aqi1 == add_seasonal_factor(base_aqi, forecast_time)
        aqi2 == add_weekly_variation(aqi1, is_weekend)
        aqi3 == add_diurnal_pattern(aqi2, hour)
        aqi4 == add_rush_hour_peaks(aqi3, hour, is_weekday)
    IN  aqi4

\* lower_bound = max(0, aqi - 1.96 * rmse)
LowerBound(aqi, rmse) == Max2(0, aqi - ((196 * rmse) \div 100))

\* upper_bound = aqi + 1.96 * rmse
UpperBound(aqi, rmse) == aqi + ((196 * rmse) \div 100)

\* a variant that takes the temporal context of every point from start_time
ForecastPointAtStart(m, metrics, features, start_time, hour_offset) ==
    LET forecast_time == start_time + hour_offset
        base_aqi == Predict(m, features)
        aqi == PatternAdjusted(base_aqi, start_time)
        rmse == TestRmse(metrics)
        lower_bound == LowerBound(aqi, rmse)
        upper_bound == UpperBound(aqi, rmse)
    IN  [timestamp |-> forecast_time,
         hour_offset |-> hour_offset,
         aqi_forecast |-> aqi,
         aqi_lower |-> lower_bound,
         aqi_upper |-> upper_bound,
         base_aqi |-> base_aqi,
         confidence_interval_width |-> upper_bound - lower_bound,
         season |-> get_season(start_time),
         is_weekend |-> ~(WeekdayOf(start_time) < 5),
         is_rush_hour |-> HourOf(start_time) \in {7, 8, 9, 19, 20, 21}]

\* one dict appended to forecasts (include_patterns = True)
ForecastPoint(m, metrics, features, start_time, hour_offset) ==
    LET forecast_time == start_time + hour_offset
        base_aqi == Predict(m, features)
        aqi == PatternAdjusted(base_aqi, forecast_time)
        rmse == TestRmse(metrics)
        lower_bound == LowerBound(aqi, rmse)
        upper_bound == UpperBound(aqi, rmse)
    IN  [timestamp |-> forecast_time,
         hour_offset |-> hour_offset,
         aqi_forecast |-> aqi,
         aqi_lower |-> lower_bound,
         aqi_upper |-> upper_bound,
         base_aqi |-> base_aqi,
         confidence_interval_width |-> upper_bound - lower_bound,
         season |-> get_season(forecast_time),
         is_weekend |-> ~(WeekdayOf(forecast_time) < 5),
         is_rush_hour |-> HourOf(forecast_time) \in {7, 8, 9, 19, 20, 21}]

\* a variant that resumes after the forecasts already in forecast_history
generate_forecast_resuming(m, metrics, features, start_time, forecast_hours, include_patterns) ==
    LET a == [features |-> features, start_time |-> start_time,
              forecast_hours |-> forecast_hours,
              include_patterns |-> include_patterns]
        n == ClampHours(forecast_hours)
    IN  IF m = "None"
        THEN Raised("generate_forecast", a, "ValueError")
        ELSE IF ~include_patterns
        THEN Raised("generate_forecast", a, "UnboundLocalError")
        ELSE Returned("generate_forecast", a,
                 [i \in 1..n |->
                     ForecastPoint(m, metrics, features,
                         start_time + Len(forecast_history), i - 1)])

\* the outcome of generate_forecast on an engine in state (m, metrics)
generate_forecast(m, metrics, features, start_time, forecast_hours, include_patterns) ==
    LET a == [features |-> features, start_time |-> start_time,
              forecast_hours |-> forecast_hours,
              include_patterns |-> include_patterns]
        n == ClampHours(forecast_hours)
    IN  IF m = "None"
        THEN Raised("generate_forecast", a, "ValueError")
        ELSE IF ~include_patterns
        \* is_weekend and hour are bound only inside "if include_patterns",
        \* and the first iteration (n >= 1) reads them
        THEN Raised("generate_forecast", a, "UnboundLocalError")
        ELSE Returned("generate_forecast", a,
                 [i \in 1..n |->
                     ForecastPoint(m, metrics, features, start_time, i - 1)])

(***************************************************************************)
(* ForecastingEngine.calculate_confidence_intervals                        *)
(***************************************************************************)
\* confidence levels in percent
ConfidenceLevels == {0, 95, 99}

\* scipy.stats.norm.ppf((1 + confidence_level) / 2), in E4 units
ZScore(confidence_level) ==
    CASE confidence_level = 0 -> 0
      [] confidence_level = 95 -> 19600
      [] confidence_level = 99 -> 25758

Margin(metrics, confidence_level) ==
    (ZScore(confidence_level) * TestRmse(metrics)) \div E4

\* a variant without the clamp at zero
lower_bounds_unclamped(predictions, margin) ==
    [i \in DOMAIN predictions |-> predictions[i] - margin]

\* np.maximum(0, predictions - margin)
lower_bounds(predictions, margin) ==
    [i \in DOMAIN predictions |-> Max2(0, predictions[i] - margin)]

\* predictions + margin
upper_bounds(predictions, margin) ==
    [i \in DOMAIN predictions |-> predictions[i] + margin]

calculate_confidence_intervals(metrics, predictions, confidence_level) ==
    LET margin == Margin(metrics, confidence_level)
    IN  Returned("calculate_confidence_intervals",
                 [predictions |-> predictions,
                  confidence_level |-> confidence_level],
                 [lower |-> lower_bounds(predictions, margin),
                  upper |-> upper_bounds(predictions, margin)])

(***************************************************************************)
(* ForecastingEngine: actions                                              *)
(***************************************************************************)
MaxHistory == 2
MaxBatch == 1

\* 2025-02-28 22:00: a Friday, two hours before a weekend and before March;
\* 72 hours on, the horizon ends on Monday 21:00, after both rush hours
StartTimes == {1414}
ForecastHoursInputs == {0, 3, 73}

\* predictions handed to calculate_confidence_intervals, in E4 units
PredictionValues == {0 - 20 * E4, 5 * E4}
PredictionArrays ==
    UNION {[1..n -> PredictionValues] : n \in 1..MaxBatch}

\* train_model: fits a RandomForestRegressor and stores its metrics
TrainModel(r) ==
    /\ model' = "fitted"
    /\ model_metrics' = Metrics(r)
    /\ UNCHANGED <<forecast_history, forecast_ret>>
    /\ UNCHANGED othersThanEngine

\* load_model on a pickled dict: model, feature_names and metrics are taken
\* from it ('model' missing gives None, 'metrics' missing gives {})
LoadModelDict(m, metrics) ==
    /\ model' = m
    /\ model_metrics' = metrics
    /\ UNCHANGED <<forecast_history, forecast_ret>>
    /\ UNCHANGED othersThanEngine

\* load_model on a pickled bare model: only self.model is replaced
LoadModelRaw(m) ==
    /\ model' = m
    /\ UNCHANGED <<model_metrics, forecast_history, forecast_ret>>
    /\ UNCHANGED othersThanEngine

\* a variant that records the horizon as it was requested
GenerateForecastRecordingRequest(features, start_time, forecast_hours, include_patterns) ==
    LET r == generate_forecast(model, model_metrics, features, start_time,
                               forecast_hours, include_patterns)
    IN  /\ forecast_ret' = r
        /\ IF r.outcome = "returned"
           THEN /\ Len(forecast_history) < MaxHistory
                /\ forecast_history' =
                       Append(forecast_history,
                              [start_time |-> start_time,
                               forecast_hours |-> forecast_hours])
           ELSE UNCHANGED forecast_history
        /\ UNCHANGED <<model, model_metrics>>
        /\ UNCHANGED othersThanEngine

GenerateForecast(features, start_time, forecast_hours, include_patterns) ==
    LET r == generate_forecast(model, model_metrics, features, start_time,
                               forecast_hours, include_patterns)
    IN  /\ forecast_ret' = r
        /\ IF r.outcome = "returned"
           THEN /\ Len(forecast_history) < MaxHistory
                /\ forecast_history' =
                       Append(forecast_history,
                              [start_time |-> start_time,
                               forecast_hours |-> ClampHours(forecast_hours)])
           ELSE UNCHANGED forecast_history
        /\ UNCHANGED <<model, model_metrics>>
        /\ UNCHANGED othersThanEngine

CalculateConfidenceIntervals(predictions, confidence_level) ==
    /\ forecast_ret' =
           calculate_confidence_intervals(model_metrics, predictions,
                                          confidence_level)
    /\ UNCHANGED <<model, model_metrics, forecast_history>>
    /\ UNCHANGED othersThanEngine

EngineInit ==
    /\ model = "None"
    /\ model_metrics = NoMetrics
    /\ forecast_history = <<>>
    /\ forecast_ret = NoCall

\* a pickled dict's 'metrics' entry
PickledMetrics == {NoMetrics} \cup {Metrics(r) : r \in RmseValues}

(***************************************************************************)
(* AQIForecaster._haversine_distance                                       *)
(*                                                                         *)
(* Coordinates are in 1e-4 degrees.  The great-circle distance (Earth      *)
(* radius 6371 km) is tabulated for the target points and station sites    *)
(* of the model, in whole 50 m steps (floor of km / 0.05).                 *)
(***************************************************************************)
TargetA == [lat |-> 299990, lon |-> 772500]   \* 29.9990 N, plains band
TargetB == [lat |-> 300010, lon |-> 772500]   \* 30.0010 N, above 30 N
TargetC == [lat |-> 239990, lon |-> 772500]   \* 23.9990 N, south of 24 N
Targets == {TargetA, TargetB, TargetC}

\* targets that lie on no globe: 90.0010 N, and 180.0010 E at 30 N
TargetBeyondPole == [lat |-> 900010, lon |-> 772500]
TargetBeyondDateline == [lat |-> 300000, lon |-> 1800010]
TargetsOffGlobe == {TargetBeyondPole, TargetBeyondDateline}

HaversineTable ==
    { <<299990, 772500, 299990, 772500, 0>>,     \*   0.0 m
      <<299990, 772500, 299996, 772500, 1>>,     \*  66.7 m
      <<299990, 772500, 300002, 772500, 2>>,     \* 133.4 m
      <<299990, 772500, 300010, 772530, 7>>,     \* 364.6 m
      <<299990, 772500, 299970, 772500, 4>>,     \* 222.4 m
      <<299990, 772500, 300040, 772500, 11>>,    \* 556.0 m
      <<300010, 772500, 299990, 772500, 4>>,     \* 222.4 m
      <<300010, 772500, 299996, 772500, 3>>,     \* 155.7 m
      <<300010, 772500, 300002, 772500, 1>>,     \*  89.0 m
      <<300010, 772500, 300010, 772530, 5>>,     \* 288.9 m
      <<300010, 772500, 299970, 772500, 8>>,     \* 444.8 m
      <<300010, 772500, 300040, 772500, 6>>,     \* 333.6 m
      <<239990, 772500, 240002, 772500, 2>>,     \* 133.4 m
      <<900010, 772500, 899990, 772500, 4>>,     \* 222.4 m
      <<300000, 1800010, 300000, 1799990, 3>> }  \* 192.6 m

InTable(lat1, lon1, lat2, lon2) ==
    \E r \in HaversineTable :
        r[1] = lat1 /\ r[2] = lon1 /\ r[3] = lat2 /\ r[4] = lon2

haversine_distance(lat1, lon1, lat2, lon2) ==
    LET r == CHOOSE r \in HaversineTable :
                 r[1] = lat1 /\ r[2] = lon1 /\ r[3] = lat2 /\ r[4] = lon2
    IN  r[5]

(***************************************************************************)
(* Station readings handed to the interpolator: dicts with 'lat', 'lon',   *)
(* 'aqi' and 'features'.  'features' is a Python list (what callers build  *)
(* with .tolist()) or a numpy array (what the docstring names).            *)
(***************************************************************************)
Station(la, lo, a, f, ft) ==
    [lat |-> la, lon |-> lo, aqi |-> a, features |-> f, ftype |-> ft]

StationCatalogue ==
    { Station(299990, 772500, 120, <<10, 20>>, "list"),
      Station(299996, 772500, 95, <<30, 40>>, "ndarray"),
      Station(300002, 772500, 140, <<50>>, "list"),
      Station(300010, 772530, 300, <<1, 2, 3>>, "list"),
      Station(299970, 772500, 0, <<7, 9>>, "ndarray"),
      Station(300040, 772500, 450, <<60, 80>>, "list"),
      Station(240002, 772500, 210, <<5, 5>>, "list") }

\* stations next to the pole and next to the date line
RemoteCatalogue ==
    { Station(899990, 772500, 80, <<1, 1>>, "list"),
      Station(300000, 1799990, 160, <<2, 2>>, "list") }

(***************************************************************************)
(* Exact fractions and sums                                                *)
(***************************************************************************)
Frac(n, d) == [num |-> n, den |-> d]

RECURSIVE Pow(_, _)
Pow(b, e) == IF e = 0 THEN 1 ELSE b * Pow(b, e - 1)

RECURSIVE SumSeq(_)
SumSeq(q) == IF q = <<>> THEN 0 ELSE Head(q) + SumSeq(Tail(q))

RECURSIVE ProdSeq(_)
ProdSeq(q) == IF q = <<>> THEN 1 ELSE Head(q) * ProdSeq(Tail(q))

(***************************************************************************)
(* AQIForecaster.predict_spatial_interpolation                             *)
(***************************************************************************)
\* a variant that keeps the stations in the order they were given
ArgsortsInputOrder(distances) == {[i \in 1..Len(distances) |-> i]}

\* np.argsort(distances): the index orders that sort the distances; equal
\* distances may come out in either order (the default sort is not stable)
Argsorts(distances) ==
    LET n == Len(distances)
    IN  { o \in [1..n -> 1..n] :
            /\ \A i, j \in 1..n : i # j => o[i] # o[j]
            /\ \A i, j \in 1..n : i < j => distances[o[i]] <= distances[o[j]] }

\* weights_raw = [1.0 / (d ** idw_power) ...] over a common denominator:
\* the numerators of the normalized weights, which all have denominator
\* SumSeq(IdwNumerators)
IdwNumerators(nearest_distances, idw_power) ==
    LET pw == [i \in DOMAIN nearest_distances |->
                  Pow(nearest_distances[i], idw_power)]
        all == ProdSeq(pw)
    IN  [i \in DOMAIN nearest_distances |-> all \div pw[i]]

\* a variant that weights by d ** idw_power instead of its inverse
IdwWeightsDirect(nearest_distances, idw_power) ==
    LET pw == [i \in DOMAIN nearest_distances |->
                  Pow(nearest_distances[i], idw_power)]
    IN  [i \in DOMAIN pw |-> Frac(pw[i], SumSeq(pw))]

\* a variant that returns weights_raw itself, 1 / d ** idw_power
IdwWeightsRaw(nearest_distances, idw_power) ==
    LET nums == IdwNumerators(nearest_distances, idw_power)
        pw == [i \in DOMAIN nearest_distances |->
                  Pow(nearest_distances[i], idw_power)]
    IN  [i \in DOMAIN nums |-> Frac(nums[i], ProdSeq(pw))]

\* weights = [w / total_weight for w in weights_raw]
IdwWeights(nearest_distances, idw_power) ==
    LET nums == IdwNumerators(nearest_distances, idw_power)
    IN  [i \in DOMAIN nums |-> Frac(nums[i], SumSeq(nums))]

\* a variant that adds the stations' AQI values up unweighted
WeightedAqiPlainSum(weights, nearest_stations) ==
    Frac(SumSeq([i \in DOMAIN weights |-> nearest_stations[i].aqi]), 1)

\* sum(w * s['aqi'] for w, s in zip(weights, nearest_stations))
WeightedAqi(weights, nearest_stations) ==
    Frac(SumSeq([i \in DOMAIN weights |->
                    weights[i].num * nearest_stations[i].aqi]),
         weights[1].den)

\* np.zeros(feature_dim) += w * np.array(station['features']) is accepted by
\* numpy when the station's vector has feature_dim entries or a single entry
\* (which is broadcast to every dimension)
Broadcastable(feature_dim, nearest_stations) ==
    \A i \in DOMAIN nearest_stations :
        \/ Len(nearest_stations[i].features) = feature_dim
        \/ Len(nearest_stations[i].features) = 1

WeightedFeatures(feature_dim, weights, nearest_stations) ==
    [d \in 1..feature_dim |->
        Frac(SumSeq([i \in DOMAIN weights |->
                 LET f == nearest_stations[i].features
                 IN  weights[i].num * (IF Len(f) = 1 THEN f[1] ELSE f[d])]),
             weights[1].den)]

\* the near-colocation test: min(nearest_distances) < 0.1 km, in 50 m steps
VeryClose(nearest_distances) ==
    \E i \in DOMAIN nearest_distances : nearest_distances[i] < 2

\* np.argmin: the first index holding the minimum
Argmin(q) ==
    CHOOSE i \in DOMAIN q :
        /\ \A j \in DOMAIN q : q[i] <= q[j]
        /\ \A j \in DOMAIN q : j < i => q[j] > q[i]

InterpolationArgs(target_lat, target_lon, station_data, k_nearest, idw_power) ==
    [target_lat |-> target_lat, target_lon |-> target_lon,
     station_data |-> station_data, k_nearest |-> k_nearest,
     idw_power |-> idw_power]

\* order: the index order np.argsort returned
predict_spatial_interpolation(target_lat, target_lon, station_data, k_nearest, idw_power, order) ==
    LET a == InterpolationArgs(target_lat, target_lon, station_data,
                               k_nearest, idw_power)
        k == IF Len(station_data) < k_nearest THEN Len(station_data)
             ELSE k_nearest
        distances == [i \in DOMAIN station_data |->
                         haversine_distance(target_lat, target_lon,
                             station_data[i].lat, station_data[i].lon)]
        nearest_stations == [i \in 1..k |-> station_data[order[i]]]
        nearest_distances == [i \in 1..k |-> distances[order[i]]]
        provenance(weights) ==
            [i \in 1..k |-> [distance_km |-> nearest_distances[i],
                             aqi |-> nearest_stations[i].aqi,
                             weight |-> weights[i]]]
        result(aqi, features, weights) ==
            [latitude |-> target_lat, longitude |-> target_lon,
             interpolated_aqi |-> aqi,
             interpolated_features |-> features,
             method |-> "IDW", k_nearest |-> k,
             nearest_stations |-> provenance(weights)]
    IN  IF k = 0
        \* nearest_stations[0] on an empty list
        THEN Raised("predict_spatial_interpolation", a, "IndexError")
        ELSE LET feature_dim == Len(nearest_stations[1].features)
             IN  IF VeryClose(nearest_distances)
                 THEN LET closest_idx == Argmin(nearest_distances)
                          closest == nearest_stations[closest_idx]
                      IN  IF closest.ftype = "list"
                          \* a list has no .tolist()
                          THEN Raised("predict_spatial_interpolation", a,
                                      "AttributeError")
                          ELSE Returned("predict_spatial_interpolation", a,
                                   result(Frac(closest.aqi, 1),
                                      [d \in DOMAIN closest.features |->
                                          Frac(closest.features[d], 1)],
                                      [i \in 1..k |->
                                          IF i = closest_idx THEN Frac(1, 1)
                                          ELSE Frac(0, 1)]))
                 ELSE LET weights == IdwWeights(nearest_distances, idw_power)
                      IN  IF ~Broadcastable(feature_dim, nearest_stations)
                          \* operands could not be broadcast together
                          THEN Raised("predict_spatial_interpolation", a,
                                      "ValueError")
                          ELSE Returned("predict_spatial_interpolation", a,
                                   result(WeightedAqi(weights,
                                                      nearest_stations),
                                          WeightedFeatures(feature_dim,
                                              weights, nearest_stations),
                                          weights))


(***************************************************************************)
(* AQIForecaster.predict_hyperlocal                                        *)
(*                                                                         *)
(* aod_value is in hundredths.  aod_aqi is in E4 units; the two terms of   *)
(* the blend are taken in hundredths of an AQI point (floor), the blend is *)
(* in 1e-3 units and, times the temporal factor, in 1e-5 units;            *)
(* round(x, 2) rounds half to even.                                        *)
(***************************************************************************)
\* round(x, 2) of a value in units of 1/(100 * unit): hundredths
Round2(x, unit) ==
    LET ax == Abs(x)
        q == ax \div unit
        r == ax % unit
        up == (2 * r > unit) \/ (2 * r = unit /\ q % 2 = 1)
        m == IF up THEN q + 1 ELSE q
    IN  IF x >= 0 THEN m ELSE 0 - m

\* seasonal_factors.get(season, 1.0), in tenths
HyperlocalSeasonFactor(season) ==
    CASE season = "winter" -> 13
      [] season = "summer" -> 9
      [] season = "monsoon" -> 7
      [] season = "autumn" -> 11
      [] OTHER -> 10

\* season inferred from temporal_features.get('month', 1)
HyperlocalSeason(season, temporal_features) ==
    IF season # "None" THEN season
    ELSE LET month == IF temporal_features.has_month
                      THEN temporal_features.month ELSE 1
         IN  IF month \in {12, 1, 2} THEN "winter"
             ELSE IF month \in {3, 4, 5} THEN "summer"
             ELSE IF month \in {6, 7, 8, 9} THEN "monsoon"
             ELSE "autumn"

\* latitude_factor, in tenths; latitude in 1e-4 degrees
LatitudeFactor(latitude) ==
    IF 240000 <= latitude /\ latitude <= 300000 THEN 12
    ELSE IF latitude > 300000 THEN 8
    ELSE 10

\* temporal_factor, in hundredths
TemporalFactor(temporal_features) ==
    LET hour == IF temporal_features.has_hour
                THEN temporal_features.hour ELSE 12
    IN  IF 6 <= hour /\ hour <= 9 THEN 115
        ELSE IF 18 <= hour /\ hour <= 21 THEN 110
        ELSE IF 0 <= hour /\ hour <= 5 THEN 105
        ELSE 100

\* aod_aqi = 150 * aod_value * seasonal factor * latitude_factor, in E4 units
AodAqi(aod_value, season, latitude) ==
    150 * aod_value * HyperlocalSeasonFactor(season) * LatitudeFactor(latitude)

\* fusion_weights['aod'] * aod_aqi + fusion_weights['ground'] * ground_aqi,
\* with weights 0.4 and 0.6: both terms in hundredths, the sum in 1e-3 units
FusedAqi(aod_aqi, ground_aqi) ==
    4 * (aod_aqi \div 100) + 6 * ((ground_aqi.num * 100) \div ground_aqi.den)

\* a variant that lets the blended value through as it is
ClipNone(fused_aqi) == fused_aqi

\* np.clip(fused_aqi, 0, 500), in 1e-5 units
Clip(fused_aqi) == Max2(0, Min2(500 * 10 * E4, fused_aqi))

HyperlocalArgs(latitude, longitude, aod_value, temporal_features, stations_given, nearby_stations, season) ==
    [latitude |-> latitude, longitude |-> longitude,
     aod_value |-> aod_value, temporal_features |-> temporal_features,
     stations_given |-> stations_given,
     nearby_stations |-> nearby_stations, season |-> season]

\* stations_given = FALSE is nearby_stations = None; order is the index
\* order np.argsort returns inside the interpolation
predict_hyperlocal(latitude, longitude, aod_value, temporal_features, stations_given, nearby_stations, season, order) ==
    LET a == HyperlocalArgs(latitude, longitude, aod_value,
                            temporal_features, stations_given,
                            nearby_stations, season)
        ssn == HyperlocalSeason(season, temporal_features)
        latitude_factor == LatitudeFactor(latitude)
        aod_aqi == AodAqi(aod_value, ssn, latitude)
        temporal_factor == TemporalFactor(temporal_features)
    IN  IF stations_given /\ Len(nearby_stations) > 0
        THEN LET spatial_result ==
                     predict_spatial_interpolation(latitude, longitude,
                         nearby_stations, 3, 2, order)
             IN  IF spatial_result.outcome = "raised"
                 THEN Raised("predict_hyperlocal", a, spatial_result.error)
                 ELSE LET ground_aqi == spatial_result.result.interpolated_aqi
                          fused_aqi == FusedAqi(aod_aqi, ground_aqi)
                                           * temporal_factor
                      IN  Returned("predict_hyperlocal", a,
                              [latitude |-> latitude,
                               longitude |-> longitude,
                               hyperlocal_aqi |-> Round2(Clip(fused_aqi), 1000),
                               aod_value |-> aod_value,
                               aod_derived_aqi |-> Round2(aod_aqi, 100),
                               season |-> ssn,
                               confidence |-> "high",
                               method |-> "Satellite-Ground Fusion",
                               temporal_factor |-> temporal_factor,
                               latitude_factor |-> latitude_factor,
                               components |->
                                   [satellite_contribution |-> 4,
                                    ground_contribution |-> 6],
                               nearest_stations_used |-> Len(nearby_stations)])
        \* the satellite-only branch never binds fusion_weights, and the
        \* returned dict reads fusion_weights.get('aod', 1.0)
        ELSE Raised("predict_hyperlocal", a, "UnboundLocalError")


(***************************************************************************)
(* AQIForecaster: calls.  The object keeps no state that interpolation or  *)
(* fusion reads, so a behaviour is one call: it starts pending with its    *)
(* arguments and the action runs the whole method.                         *)
(***************************************************************************)
MaxStations == 3

Pending(opname, a) == [op |-> opname, outcome |-> "pending", args |-> a]

\* station lists over a catalogue, restricted to the stations that lie in
\* the tabulated range of the target
StationLists(target, catalogue) ==
    LET near == { st \in catalogue :
                    InTable(target.lat, target.lon, st.lat, st.lon) }
    IN  UNION { [1..n -> near] : n \in 0..MaxStations }

KNearestInputs == {1, 2, 3}
IdwPowerInputs == {1, 2}

TemporalFeatures(has_m, m, has_h, h) ==
    [has_month |-> has_m, month |-> m, has_hour |-> has_h, hour |-> h]

\* (season argument, month) pairs, hours and AOD values of the fusion
\* calls; month 0 and hour -1 stand for a missing key
SeasonMonthInputs ==
    { <<"None", 0>>, <<"None", 1>>, <<"None", 4>>, <<"None", 7>>,
      <<"None", 10>>, <<"winter", 7>>, <<"spring", 1>> }
HourInputs == {-1, 3, 7, 12, 19}
AodInputs == {-10, 50, 400}

\* the stations offered to the fusion calls
NearbyCatalogue ==
    { st \in StationCatalogue : st.aqi \in {95, 140, 0, 450, 210} }

distances_of(lat, lon, station_data) ==
    [i \in DOMAIN station_data |->
        haversine_distance(lat, lon, station_data[i].lat, station_data[i].lon)]

PredictSpatialInterpolation ==
    /\ spatial_ret.outcome = "pending"
    /\ spatial_ret.op = "predict_spatial_interpolation"
    /\ LET a == spatial_ret.args
       IN  \E order \in Argsorts(distances_of(a.target_lat, a.target_lon,
                                              a.station_data)) :
               spatial_ret' =
                   predict_spatial_interpolation(a.target_lat, a.target_lon,
                       a.station_data, a.k_nearest, a.idw_power, order)
    /\ UNCHANGED <<engineVars, ensembleVars, health_ret, scraperVars>>

PredictHyperlocal ==
    /\ spatial_ret.outcome = "pending"
    /\ spatial_ret.op = "predict_hyperlocal"
    /\ LET a == spatial_ret.args
       IN  \E order \in Argsorts(distances_of(a.latitude, a.longitude,
                                              a.nearby_stations)) :
               spatial_ret' =
                   predict_hyperlocal(a.latitude, a.longitude, a.aod_value,
                       a.temporal_features, a.stations_given,
                       a.nearby_stations, a.season, order)
    /\ UNCHANGED <<engineVars, ensembleVars, health_ret, scraperVars>>

InterpolationInit ==
    \E t \in {TargetA, TargetB}, k \in KNearestInputs, p \in IdwPowerInputs :
        \E sd \in StationLists(t, StationCatalogue) :
            spatial_ret = Pending("predict_spatial_interpolation",
                              InterpolationArgs(t.lat, t.lon, sd, k, p))

HyperlocalInit ==
    \E t \in Targets, aod \in AodInputs, sm \in SeasonMonthInputs,
       h \in HourInputs :
        LET tf == TemporalFeatures(sm[2] # 0, sm[2], h # -1, h)
        IN  \/ spatial_ret = Pending("predict_hyperlocal",
                    HyperlocalArgs(t.lat, t.lon, aod, tf, FALSE, <<>>, sm[1]))
            \/ \E sd \in StationLists(t, NearbyCatalogue) :
                   spatial_ret = Pending("predict_hyperlocal",
                       HyperlocalArgs(t.lat, t.lon, aod, tf, TRUE, sd, sm[1]))

\* interpolation and fusion calls for the targets off the globe
OffGlobeInit ==
    \E t \in TargetsOffGlobe :
        \E sd \in StationLists(t, RemoteCatalogue) :
            \/ \E k \in KNearestInputs, p \in IdwPowerInputs :
                   spatial_ret = Pending("predict_spatial_interpolation",
                                     InterpolationArgs(t.lat, t.lon, sd, k, p))
            \/ \E aod \in AodInputs, m \in {1, 7} :
                   spatial_ret = Pending("predict_hyperlocal",
                       HyperlocalArgs(t.lat, t.lon, aod,
                           TemporalFeatures(TRUE, m, TRUE, 12), TRUE, sd,
                           "None"))

SpatialInit ==
    /\ EngineInit
    /\ lstm_model = "None"
    /\ rf_model = "None"
    /\ ensemble_ret = NoCall
    /\ ScraperIdle
    /\ health_ret = NoCall
    /\ InterpolationInit \/ HyperlocalInit \/ OffGlobeInit

SpatialNext == PredictSpatialInterpolation \/ PredictHyperlocal

SpecSpatial == SpatialInit /\ [][SpatialNext]_vars


(***************************************************************************)
(* Specifications.  The three objects share no state: each component       *)
(* specification is the whole system restricted to one object's calls.     *)
(***************************************************************************)
Init ==
    /\ EngineInit
    /\ lstm_model = "None"
    /\ rf_model = "None"
    /\ ensemble_ret = NoCall
    /\ ScraperIdle
    /\ spatial_ret = NoCall
    /\ health_ret = NoCall

\* the scraper's requests
SpecScraper == Init /\ [][ScraperNext]_vars

\* the engine's forecasts
ForecastNext ==
    \/ \E r \in RmseValues : TrainModel(r)
    \/ \E m \in {"fitted", "None"}, ms \in PickledMetrics :
           LoadModelDict(m, ms)
    \/ LoadModelRaw("fitted")
    \/ \E f \in FeatureRows, t \in StartTimes, h \in ForecastHoursInputs,
          p \in BOOLEAN : GenerateForecast(f, t, h, p)

SpecForecast == Init /\ [][ForecastNext]_vars

\* the engine's confidence intervals
IntervalNext ==
    \/ \E r \in RmseValues : TrainModel(r)
    \/ \E m \in {"fitted", "None"}, ms \in PickledMetrics :
           LoadModelDict(m, ms)
    \/ LoadModelRaw("fitted")
    \/ \E ps \in PredictionArrays, c \in ConfidenceLevels :
           CalculateConfidenceIntervals(ps, c)

\* the engine: forecasts and confidence intervals
EngineNext == ForecastNext \/ IntervalNext

SpecEngine == Init /\ [][EngineNext]_vars

SpecInterval == Init /\ [][IntervalNext]_vars

(***************************************************************************)
(* AQIForecaster.predict_ensemble                                          *)
(*                                                                         *)
(* X is a sequence of feature rows (one number each).  The two fitted      *)
(* models are deterministic functions: the forest of one row, the LSTM of  *)
(* a window of lookback rows.  Predictions are in AQI points, the blend in *)
(* tenths (lstm_weight is in tenths).                                      *)
(***************************************************************************)
\* self.rf_model.predict on one row
RfPredict(row) == row + 5

\* self.lstm_model.predict on one window
LstmPredict(window) == window[Len(window)] - 3

\* _create_sequences: X[i-lookback:i] for i in range(lookback, len(X))
create_sequences(X, lookback) ==
    [j \in 1..Max2(0, Len(X) - lookback) |-> SubSeq(X, j, j + lookback - 1)]

\* X[:lookback]
Prefix(X, lookback) == SubSeq(X, 1, Min2(lookback, Len(X)))

EnsembleBlend(lstm_weight, lstm_pred_full, rf_pred) ==
    [i \in DOMAIN rf_pred |->
        lstm_weight * lstm_pred_full[i] + (10 - lstm_weight) * rf_pred[i]]

\* a variant that refuses only when both models are unset
predict_ensemble_both_unset(lstm, rf, X, lookback, lstm_weight, keras_empty_ok) ==
    LET a == [X |-> X, lookback |-> lookback, lstm_weight |-> lstm_weight]
        X_seq == create_sequences(X, lookback)
        lstm_pred == [j \in DOMAIN X_seq |-> LstmPredict(X_seq[j])]
        rf_pred_initial == [i \in DOMAIN Prefix(X, lookback) |->
                               RfPredict(X[i])]
        lstm_pred_full == rf_pred_initial \o lstm_pred
        rf_pred == [i \in DOMAIN X |-> RfPredict(X[i])]
    IN  IF lstm = "None" /\ rf = "None"
        THEN Raised("predict_ensemble", a, "ValueError: models not trained")
        ELSE IF X_seq = <<>> /\ ~keras_empty_ok
        THEN Raised("predict_ensemble", a, "ValueError: keras empty batch")
        ELSE IF Prefix(X, lookback) = <<>>
        THEN Raised("predict_ensemble", a, "ValueError: sklearn no samples")
        ELSE Returned("predict_ensemble", a,
                 EnsembleBlend(lstm_weight, lstm_pred_full, rf_pred))

\* keras_empty_ok: whether the installed Keras answers predict() on an empty
\* batch with an empty array (otherwise it raises ValueError); scikit-learn
\* always rejects an array with no samples
predict_ensemble(lstm, rf, X, lookback, lstm_weight, keras_empty_ok) ==
    LET a == [X |-> X, lookback |-> lookback, lstm_weight |-> lstm_weight]
        X_seq == create_sequences(X, lookback)
        lstm_pred == [j \in DOMAIN X_seq |-> LstmPredict(X_seq[j])]
        rf_pred_initial == [i \in DOMAIN Prefix(X, lookback) |->
                               RfPredict(X[i])]
        lstm_pred_full == rf_pred_initial \o lstm_pred
        rf_pred == [i \in DOMAIN X |-> RfPredict(X[i])]
    IN  IF lstm = "None" \/ rf = "None"
        THEN Raised("predict_ensemble", a, "ValueError: models not trained")
        ELSE IF X_seq = <<>> /\ ~keras_empty_ok
        THEN Raised("predict_ensemble", a, "ValueError: keras empty batch")
        ELSE IF Prefix(X, lookback) = <<>>
        THEN Raised("predict_ensemble", a, "ValueError: sklearn no samples")
        ELSE Returned("predict_ensemble", a,
                 EnsembleBlend(lstm_weight, lstm_pred_full, rf_pred))

MaxRows == 3
RowValues == {40, 100}
Batches == UNION { [1..n -> RowValues] : n \in 0..MaxRows }
LookbackInputs == {1, 2}
LstmWeightInputs == {7, 5}

\* train_lstm
TrainLstm ==
    /\ lstm_model' = "fitted"
    /\ UNCHANGED <<rf_model, ensemble_ret>>
    /\ UNCHANGED <<engineVars, spatial_ret, health_ret, scraperVars>>

\* train_random_forest
TrainRandomForest ==
    /\ rf_model' = "fitted"
    /\ UNCHANGED <<lstm_model, ensemble_ret>>
    /\ UNCHANGED <<engineVars, spatial_ret, health_ret, scraperVars>>

\* load_models: each model is replaced when its file exists
LoadModels(lstm_exists, rf_exists) ==
    /\ lstm_model' = IF lstm_exists THEN "fitted" ELSE lstm_model
    /\ rf_model' = IF rf_exists THEN "fitted" ELSE rf_model
    /\ UNCHANGED ensemble_ret
    /\ UNCHANGED <<engineVars, spatial_ret, health_ret, scraperVars>>

PredictEnsemble(X, lookback, lstm_weight) ==
    /\ \E keras_empty_ok \in BOOLEAN :
           ensemble_ret' = predict_ensemble(lstm_model, rf_model, X, lookback,
                                            lstm_weight, keras_empty_ok)
    /\ UNCHANGED <<lstm_model, rf_model>>
    /\ UNCHANGED <<engineVars, spatial_ret, health_ret, scraperVars>>

EnsembleNext ==
    \/ TrainLstm
    \/ TrainRandomForest
    \/ \E le, re \in BOOLEAN : LoadModels(le, re)
    \/ \E X \in Batches, lb \in LookbackInputs, w \in LstmWeightInputs :
           PredictEnsemble(X, lb, w)

SpecEnsemble == Init /\ [][EnsembleNext]_vars

\* the two predictors that refuse to run before a model is in place, each
\* called on a few of its inputs
ReadinessNext ==
    \/ TrainLstm
    \/ TrainRandomForest
    \/ \E le, re \in BOOLEAN : LoadModels(le, re)
    \/ \E X \in {<<>>, <<40>>, <<40, 100>>} : PredictEnsemble(X, 1, 5)
    \/ TrainModel(0)
    \/ \E m \in {"fitted", "None"} : LoadModelDict(m, NoMetrics)
    \/ LoadModelRaw("fitted")
    \/ \E t \in StartTimes, p \in BOOLEAN :
           GenerateForecast("typical", t, 3, p)

SpecReadiness == Init /\ [][ReadinessNext]_vars

(***************************************************************************)
(* The pattern functions called on their own.  add_rush_hour_peaks is      *)
(* called on a base value, an hour and a weekday flag.  add_seasonal_factor *)
(* is called on the base 150 x AOD at a date, next to a fusion call for    *)
(* the same AOD and the date's month at a target whose latitude factor is  *)
(* 1.0, so that both apply their season factor to the same value.          *)
(***************************************************************************)
RushHourBases == {0, 100 * E4}

\* the first hour, a mid-month morning and the last hour of every month
SeasonDates ==
    UNION { {24 * CumDays[m], 24 * (CumDays[m] + 14) + 10,
             24 * CumDays[m + 1] - 1} : m \in 1..12 }

AddRushHourPeaks ==
    /\ forecast_ret.outcome = "pending"
    /\ forecast_ret.op = "add_rush_hour_peaks"
    /\ LET a == forecast_ret.args
       IN  forecast_ret' =
               Returned("add_rush_hour_peaks", a,
                   add_rush_hour_peaks(a.base_aqi, a.hour, a.is_weekday))
    /\ UNCHANGED <<model, model_metrics, forecast_history>>
    /\ UNCHANGED othersThanEngine

AddSeasonalFactor ==
    /\ forecast_ret.outcome = "pending"
    /\ forecast_ret.op = "add_seasonal_factor"
    /\ LET a == forecast_ret.args
       IN  forecast_ret' =
               Returned("add_seasonal_factor", a,
                   add_seasonal_factor(a.base_aqi, a.date))
    /\ UNCHANGED <<model, model_metrics, forecast_history>>
    /\ UNCHANGED othersThanEngine

GetSeason ==
    /\ forecast_ret.outcome = "pending"
    /\ forecast_ret.op = "get_season"
    /\ forecast_ret' =
           Returned("get_season", forecast_ret.args,
               get_season(forecast_ret.args.date))
    /\ UNCHANGED <<model, model_metrics, forecast_history>>
    /\ UNCHANGED othersThanEngine

\* get_season and add_seasonal_factor called on their own at every date of
\* SeasonDates, the latter on a zero and on a round base value
SeasonalBases == {0, 100 * E4}

SeasonCallInit ==
    /\ spatial_ret = NoCall
    /\ \E d \in SeasonDates :
           \/ forecast_ret = Pending("get_season", [date |-> d])
           \/ \E b \in SeasonalBases :
                  forecast_ret = Pending("add_seasonal_factor",
                                     [base_aqi |-> b, date |-> d])

\* the include_patterns block of the forecast loop on its own: a base
\* value taken through the four patterns at a forecast time
ApplyPatterns ==
    /\ forecast_ret.outcome = "pending"
    /\ forecast_ret.op = "include_patterns"
    /\ LET a == forecast_ret.args
       IN  forecast_ret' =
               Returned("include_patterns", a,
                   PatternAdjusted(a.base_aqi, a.forecast_time))
    /\ UNCHANGED <<model, model_metrics, forecast_history>>
    /\ UNCHANGED othersThanEngine

\* every hour of the first seven days of every month: all 24 hours on all
\* seven days of the week in all twelve months
PatternBases == {0, 1, 100 * E4}
PatternTimes ==
    { 24 * (CumDays[m] + d) + h : m \in 1..12, d \in 0..6, h \in 0..23 }

ApplyPatternsInit ==
    /\ spatial_ret = NoCall
    /\ \E b \in PatternBases, t \in PatternTimes :
           forecast_ret = Pending("include_patterns",
                              [base_aqi |-> b, forecast_time |-> t])

RushHourInit ==
    /\ spatial_ret = NoCall
    /\ \E b \in RushHourBases, h \in 0..23, wd \in BOOLEAN :
           forecast_ret = Pending("add_rush_hour_peaks",
                              [base_aqi |-> b, hour |-> h, is_weekday |-> wd])

SeasonInit ==
    \E d \in SeasonDates, aod \in AodInputs :
        \E sd \in {q \in StationLists(TargetC, NearbyCatalogue) : Len(q) = 1} :
            /\ forecast_ret = Pending("add_seasonal_factor",
                                  [base_aqi |-> 150 * aod * 100, date |-> d])
            /\ spatial_ret = Pending("predict_hyperlocal",
                   HyperlocalArgs(TargetC.lat, TargetC.lon, aod,
                       TemporalFeatures(TRUE, MonthOf(d), TRUE, HourOf(d)),
                       TRUE, sd, "None"))

PatternsInit ==
    /\ model = "None"
    /\ model_metrics = NoMetrics
    /\ forecast_history = <<>>
    /\ lstm_model = "None"
    /\ rf_model = "None"
    /\ ensemble_ret = NoCall
    /\ ScraperIdle
    /\ health_ret = NoCall
    /\ RushHourInit \/ SeasonInit \/ SeasonCallInit \/ ApplyPatternsInit

PatternsNext ==
    \/ AddRushHourPeaks
    \/ AddSeasonalFactor
    \/ GetSeason
    \/ ApplyPatterns
    \/ PredictHyperlocal

SpecPatterns == PatternsInit /\ [][PatternsNext]_vars

(***************************************************************************)
(* AQIHealthAdvisor.  AQI values are in tenths of a point.                 *)
(***************************************************************************)
CategoryInfo(c, col, cn, rl) ==
    [category |-> c, color |-> col, color_name |-> cn, risk_level |-> rl]

\* a variant whose bins exclude their upper boundary
get_aqi_category_exclusive(aqi) ==
    IF aqi < 500 THEN CategoryInfo("Good", "#00E400", "Green", "Minimal")
    ELSE IF aqi < 1000
         THEN CategoryInfo("Satisfactory", "#FFFF00", "Yellow", "Minor")
    ELSE IF aqi < 2000
         THEN CategoryInfo("Moderate", "#FF7E00", "Orange", "Moderate")
    ELSE IF aqi < 3000 THEN CategoryInfo("Poor", "#FF0000", "Red", "High")
    ELSE IF aqi < 4000
         THEN CategoryInfo("Very Poor", "#8F3F97", "Purple", "Very High")
    ELSE CategoryInfo("Severe", "#7E0023", "Maroon", "Severe")

get_aqi_category(aqi) ==
    IF aqi <= 500 THEN CategoryInfo("Good", "#00E400", "Green", "Minimal")
    ELSE IF aqi <= 1000
         THEN CategoryInfo("Satisfactory", "#FFFF00", "Yellow", "Minor")
    ELSE IF aqi <= 2000
         THEN CategoryInfo("Moderate", "#FF7E00", "Orange", "Moderate")
    ELSE IF aqi <= 3000 THEN CategoryInfo("Poor", "#FF0000", "Red", "High")
    ELSE IF aqi <= 4000
         THEN CategoryInfo("Very Poor", "#8F3F97", "Purple", "Very High")
    ELSE CategoryInfo("Severe", "#7E0023", "Maroon", "Severe")

\* recommendations[category]['mask_required']
MaskRequired(category) ==
    CASE category = "Good" -> "False"
      [] category = "Satisfactory" -> "False"
      [] category = "Moderate" -> "Recommended for sensitive groups"
      [] category = "Poor" -> "N95 mask essential when outdoors"
      [] category = "Very Poor" ->
             "N95/N99 mask mandatory if you must go out"
      [] category = "Severe" ->
             "N99 mask + eye protection if emergency outdoor exposure"

\* an optional forecast argument: None, or a value
NoForecast == [given |-> FALSE, value |-> 0]
Forecast(v) == [given |-> TRUE, value |-> v]

\* Python truthiness of an optional float: None and 0 are false
Truthy(f) == f.given /\ f.value # 0

\* the forecast trend: None unless one of the three arguments is truthy
ForecastTrend(aqi, forecast_24h, forecast_48h, forecast_72h) ==
    IF Truthy(forecast_24h) \/ Truthy(forecast_48h) \/ Truthy(forecast_72h)
    THEN LET all == <<forecast_24h, forecast_48h, forecast_72h>>
             forecasts == SelectSeq(all, LAMBDA f : f.given)
             total == SumSeq([i \in DOMAIN forecasts |-> forecasts[i].value])
             n == Len(forecasts)
         IN  \* avg_forecast < aqi * 0.9, avg_forecast > aqi * 1.1
             IF 10 * total < 9 * aqi * n THEN "improving"
             ELSE IF 10 * total > 11 * aqi * n THEN "worsening"
             ELSE "stable"
    ELSE "None"

\* round(f, 1) if f else None
ReportedForecast(f) == IF Truthy(f) THEN f ELSE NoForecast

get_health_recommendations(aqi, forecast_24h, forecast_48h, forecast_72h) ==
    LET category_info == get_aqi_category(aqi)
    IN  [current_aqi |-> aqi,
         category |-> category_info.category,
         color |-> category_info.color,
         color_name |-> category_info.color_name,
         risk_level |-> category_info.risk_level,
         mask_required |-> MaskRequired(category_info.category),
         forecast_trend |-> ForecastTrend(aqi, forecast_24h, forecast_48h,
                                          forecast_72h),
         forecast_24h |-> ReportedForecast(forecast_24h),
         forecast_48h |-> ReportedForecast(forecast_48h),
         forecast_72h |-> ReportedForecast(forecast_72h)]

\* -5.0 .. 1001.0 in tenths
AqiInputs == (0 - 50)..10010
CurrentAqiInputs == {0 - 10, 0, 500, 1000, 1001, 4500}
ForecastInputs == {NoForecast} \cup {Forecast(v) : v \in {0, 800, 1000, 1200}}

GetAqiCategory ==
    /\ health_ret.outcome = "pending"
    /\ health_ret.op = "get_aqi_category"
    /\ health_ret' = Returned("get_aqi_category", health_ret.args,
                              get_aqi_category(health_ret.args.aqi))
    /\ UNCHANGED <<engineVars, ensembleVars, spatial_ret, scraperVars>>

GetHealthRecommendations ==
    /\ health_ret.outcome = "pending"
    /\ health_ret.op = "get_health_recommendations"
    /\ LET a == health_ret.args
       IN  health_ret' =
               Returned("get_health_recommendations", a,
                   get_health_recommendations(a.aqi, a.forecast_24h,
                       a.forecast_48h, a.forecast_72h))
    /\ UNCHANGED <<engineVars, ensembleVars, spatial_ret, scraperVars>>

HealthInit ==
    /\ EngineInit
    /\ lstm_model = "None"
    /\ rf_model = "None"
    /\ ensemble_ret = NoCall
    /\ ScraperIdle
    /\ spatial_ret = NoCall
    /\ \/ \E aqi \in AqiInputs :
              health_ret = Pending("get_aqi_category", [aqi |-> aqi])
       \/ \E aqi \in CurrentAqiInputs, f1, f2, f3 \in ForecastInputs :
              health_ret = Pending("get_health_recommendations",
                               [aqi |-> aqi, forecast_24h |-> f1,
                                forecast_48h |-> f2, forecast_72h |-> f3])

HealthNext == GetAqiCategory \/ GetHealthRecommendations

SpecHealth == HealthInit /\ [][HealthNext]_vars

(***************************************************************************)
(* The whole system: any call on any of the three objects                  *)
(***************************************************************************)
Next ==
    \/ EngineNext
    \/ EnsembleNext
    \/ SpatialNext
    \/ HealthNext
    \/ PatternsNext
    \/ ScraperNext

Spec == (Init \/ SpatialInit \/ HealthInit \/ PatternsInit) /\ [][Next]_vars

(***************************************************************************)
(* Properties                                                              *)
(***************************************************************************)
Finished(ret, opname) ==
    ret.op = opname /\ ret.outcome \in {"returned", "raised"}

\* a finished fusion call that was given no ground stations (None or [])
FusionWithoutStations ==
    /\ Finished(spatial_ret, "predict_hyperlocal")
    /\ ~spatial_ret.args.stations_given \/ spatial_ret.args.nearby_stations = <<>>

\* 150 x AOD x season factor x latitude factor x time-of-day factor, clamped
\* to [0, 500] and rounded to two decimals (hundredths)
SatelliteOnlyAqi(a) ==
    LET ssn == HyperlocalSeason(a.season, a.temporal_features)
        aod_aqi == AodAqi(a.aod_value, ssn, a.latitude)
    IN  Round2(Clip((aod_aqi * TemporalFactor(a.temporal_features)) \div 10),
               1000)

\* C1: a fusion call with an empty or absent station list returns a result
\* with confidence "medium" whose AQI is the satellite-only value clamped to
\* [0, 500].
C1_SatelliteOnlyReturnsMedium ==
    FusionWithoutStations =>
        /\ spatial_ret.outcome = "returned"
        /\ spatial_ret.result.confidence = "medium"
        /\ spatial_ret.result.hyperlocal_aqi = SatelliteOnlyAqi(spatial_ret.args)

\* what happens instead: the call ends in UnboundLocalError
C1_SatelliteOnlyRaises ==
    /\ FusionWithoutStations
    /\ spatial_ret.args.nearby_stations = <<>>
    /\ spatial_ret.args.stations_given
    /\ spatial_ret.outcome = "raised"
    /\ spatial_ret.error = "UnboundLocalError"

InterpolationDistances ==
    distances_of(spatial_ret.args.target_lat, spatial_ret.args.target_lon,
                 spatial_ret.args.station_data)

\* a finished interpolation one of whose selected stations is under 100 m
\* away (the nearest station is always among the selected ones)
InterpolationNearStation ==
    /\ Finished(spatial_ret, "predict_spatial_interpolation")
    /\ \E i \in DOMAIN InterpolationDistances : InterpolationDistances[i] < 2

\* C2: when a selected station is less than 100 m from the target, the
\* interpolation returns a result whose AQI is exactly the nearest station's
\* AQI, with weight 1 on that station and 0 on every other selected station.
C2_ColocationShortCircuit ==
    InterpolationNearStation =>
        /\ spatial_ret.outcome = "returned"
        /\ LET ns == spatial_ret.result.nearest_stations
           IN  \E i \in DOMAIN ns :
                   /\ \A j \in DOMAIN ns :
                          ns[i].distance_km <= ns[j].distance_km
                   /\ spatial_ret.result.interpolated_aqi = Frac(ns[i].aqi, 1)
                   /\ ns[i].weight = Frac(1, 1)
                   /\ \A j \in DOMAIN ns : j # i => ns[j].weight = Frac(0, 1)

\* what happens instead when the nearest station's features are a list
C2_ColocationRaises ==
    /\ InterpolationNearStation
    /\ spatial_ret.outcome = "raised"
    /\ spatial_ret.error = "AttributeError"

\* the points of a returned forecast
ForecastPoints ==
    IF Finished(forecast_ret, "generate_forecast")
       /\ forecast_ret.outcome = "returned"
    THEN {forecast_ret.result[i] : i \in DOMAIN forecast_ret.result}
    ELSE {}

\* the (prediction, lower, upper) triples of returned confidence intervals
IntervalTriples ==
    IF Finished(forecast_ret, "calculate_confidence_intervals")
    THEN {<<forecast_ret.args.predictions[i], forecast_ret.result.lower[i],
            forecast_ret.result.upper[i]>> :
              i \in DOMAIN forecast_ret.args.predictions}
    ELSE {}

Contained(lower, point, upper) ==
    lower <= point /\ point <= upper /\ lower >= 0

\* C3 as stated: every forecast point and every confidence-interval pair
\* satisfies lower <= forecast <= upper and lower >= 0, whatever the model
\* predicts.
C3_ContainmentForAnyPrediction ==
    /\ \A p \in ForecastPoints :
           Contained(p.aqi_lower, p.aqi_forecast, p.aqi_upper)
    /\ \A t \in IntervalTriples : Contained(t[2], t[1], t[3])

\* C3: every forecast point and every confidence-interval pair whose
\* forecast value is not negative satisfies lower <= forecast <= upper and
\* lower >= 0; for a negative forecast value, lower is 0 and upper is still
\* at least the forecast.
C3_ContainmentForNonNegativeForecast ==
    /\ \A p \in ForecastPoints :
           /\ p.aqi_lower >= 0 /\ p.aqi_forecast <= p.aqi_upper
           /\ p.aqi_forecast >= 0 =>
                  Contained(p.aqi_lower, p.aqi_forecast, p.aqi_upper)
    /\ \A t \in IntervalTriples :
           /\ t[2] >= 0 /\ t[1] <= t[3]
           /\ t[1] >= 0 => Contained(t[2], t[1], t[3])

\* a confidence interval whose lower bound was clamped to 0 under a
\* non-negative prediction, computed by an engine that has also forecast
C3_ClampedIntervalReached ==
    /\ forecast_history # <<>>
    /\ \E t \in IntervalTriples : t[1] > 0 /\ t[2] = 0 /\ t[3] > t[1]

CategoryReturned ==
    /\ Finished(health_ret, "get_aqi_category")
    /\ health_ret.outcome = "returned"

\* C4: get_aqi_category maps every AQI in [0, 1000] to exactly one of the
\* six categories: [0,50] Good, (50,100] Satisfactory, (100,200] Moderate,
\* (200,300] Poor, (300,400] Very Poor, above 400 Severe, each boundary
\* value belonging to the lower bin.
C4_CategoryBins ==
    (CategoryReturned /\ health_ret.args.aqi \in 0..10000) =>
        LET aqi == health_ret.args.aqi
            c == health_ret.result.category
        IN  /\ c \in {"Good", "Satisfactory", "Moderate", "Poor",
                      "Very Poor", "Severe"}
            /\ c = "Good" <=> (0 <= aqi /\ aqi <= 500)
            /\ c = "Satisfactory" <=> (500 < aqi /\ aqi <= 1000)
            /\ c = "Moderate" <=> (1000 < aqi /\ aqi <= 2000)
            /\ c = "Poor" <=> (2000 < aqi /\ aqi <= 3000)
            /\ c = "Very Poor" <=> (3000 < aqi /\ aqi <= 4000)
            /\ c = "Severe" <=> (4000 < aqi)

\* the boundary value 200 categorized into the lower bin
C4_BoundaryReached ==
    /\ CategoryReturned
    /\ health_ret.args.aqi = 2000
    /\ health_ret.result.category = "Moderate"

\* rushHour(diurnal(weekly(seasonal(base)))) at a timestamp
ComposedInOrder(base_aqi, timestamp) ==
    LET hour == HourOf(timestamp)
        is_weekday == WeekdayOf(timestamp) < 5
    IN  add_rush_hour_peaks(
            add_diurnal_pattern(
                add_weekly_variation(
                    add_seasonal_factor(base_aqi, timestamp), ~is_weekday),
                hour),
            hour, is_weekday)

\* C5: with patterns enabled, every forecast point's adjusted AQI equals
\* rushHour(diurnal(weekly(seasonal(base)))), each adjustment acting on the
\* running value of the previous one.
C5_CompositionOrder ==
    \A p \in ForecastPoints :
        /\ forecast_ret.args.include_patterns
        /\ p.aqi_forecast = ComposedInOrder(p.base_aqi, p.timestamp)

\* a forecast holding a weekday rush-hour point whose boost is added after
\* a diurnal scaling that changes the value
C5_RushHourPointReached ==
    \E p \in ForecastPoints :
        /\ p.is_rush_hour /\ ~p.is_weekend
        /\ p.base_aqi > 0
        /\ RushHourBoost(HourOf(p.timestamp), TRUE) > 0
        /\ p.aqi_forecast # p.base_aqi + RushHourBoost(HourOf(p.timestamp), TRUE)

InterpolationReturned ==
    /\ Finished(spatial_ret, "predict_spatial_interpolation")
    /\ spatial_ret.outcome = "returned"

\* C6: outside the near-colocation short-circuit the IDW weights of the
\* selected stations are each in (0, 1] and sum to 1; in the short-circuit
\* case the reported weights also sum to 1.
C6_WeightsNormalized ==
    InterpolationReturned =>
        LET ns == spatial_ret.result.nearest_stations
            den == ns[1].weight.den
        IN  /\ den > 0
            /\ \A i \in DOMAIN ns : ns[i].weight.den = den
            /\ SumSeq([i \in DOMAIN ns |-> ns[i].weight.num]) = den
            /\ ~InterpolationNearStation =>
                   \A i \in DOMAIN ns :
                       0 < ns[i].weight.num /\ ns[i].weight.num <= den

\* an IDW result over three stations at three different distances
C6_UnequalWeightsReached ==
    /\ InterpolationReturned
    /\ ~InterpolationNearStation
    /\ LET ns == spatial_ret.result.nearest_stations
       IN  /\ Len(ns) = 3
           /\ ns[1].weight.num > ns[2].weight.num
           /\ ns[2].weight.num > ns[3].weight.num

InterpolationOfNothing ==
    /\ Finished(spatial_ret, "predict_spatial_interpolation")
    /\ spatial_ret.args.station_data = <<>>

\* C7: an interpolation over an empty station list fails with
\* InsufficientDataError and returns no result.
C7_EmptyRaisesInsufficientData ==
    InterpolationOfNothing =>
        /\ spatial_ret.outcome = "raised"
        /\ spatial_ret.error = "InsufficientDataError"

\* what happens instead: indexing the empty selection raises IndexError
C7_EmptyRaisesIndexError ==
    /\ InterpolationOfNothing
    /\ spatial_ret.outcome = "raised"
    /\ spatial_ret.error = "IndexError"

CategorizedNegative ==
    /\ \/ Finished(health_ret, "get_aqi_category")
       \/ Finished(health_ret, "get_health_recommendations")
    /\ health_ret.args.aqi < 0

\* C8: categorizing a negative AQI fails with InvalidAQIError; neither
\* get_aqi_category nor get_health_recommendations returns a category for an
\* AQI below 0.
C8_NegativeAqiRejected ==
    CategorizedNegative =>
        /\ health_ret.outcome = "raised"
        /\ health_ret.error = "InvalidAQIError"

\* what happens instead: a negative AQI is reported as Good
C8_NegativeAqiIsGood ==
    /\ CategorizedNegative
    /\ health_ret.op = "get_health_recommendations"
    /\ health_ret.outcome = "returned"
    /\ health_ret.result.category = "Good"

\* a finished interpolation that selected every station it was given, the
\* stations' feature vectors not all of one length
InterpolationMixedDimensions ==
    /\ Finished(spatial_ret, "predict_spatial_interpolation")
    /\ LET sd == spatial_ret.args.station_data
       IN  /\ Len(sd) <= spatial_ret.args.k_nearest
           /\ \E i, j \in DOMAIN sd :
                  Len(sd[i].features) # Len(sd[j].features)

\* C9: when the selected stations' feature vectors differ in length the
\* interpolation fails with DimensionMismatchError and returns no
\* interpolated feature vector.
C9_MixedDimensionsRejected ==
    InterpolationMixedDimensions =>
        /\ spatial_ret.outcome = "raised"
        /\ spatial_ret.error = "DimensionMismatchError"

\* what happens instead: a result computed from vectors of different lengths
C9_MixedDimensionsReturned ==
    /\ InterpolationMixedDimensions
    /\ spatial_ret.outcome = "returned"
    /\ Len(spatial_ret.result.interpolated_features) = 2

\* a predict_ensemble call made while a model is unset raises, whatever the
\* batch
EnsembleRefuses ==
    ((lstm_model = "None" \/ rf_model = "None")
        /\ ensemble_ret' # ensemble_ret) =>
        /\ ensemble_ret'.outcome = "raised"
        /\ ensemble_ret'.error = "ValueError: models not trained"

\* a generate_forecast call made while the model is unset raises and leaves
\* no forecast in the history
ForecastRefuses ==
    (model = "None" /\ forecast_ret' # forecast_ret
        /\ forecast_ret'.op = "generate_forecast") =>
        /\ forecast_ret'.outcome = "raised"
        /\ forecast_ret'.error = "ValueError"
        /\ forecast_history' = forecast_history

\* C10: a prediction requested while a required model is not fitted or
\* loaded fails with a model-not-ready error and produces no prediction:
\* predict_ensemble when lstm_model or rf_model is unset, generate_forecast
\* when model is unset.
C10_UnsetModelRefuses == [][EnsembleRefuses /\ ForecastRefuses]_vars

\* both predictors have refused: the ensemble with only one of its two
\* models missing, the engine with its model missing
C10_BothRefusedReached ==
    /\ lstm_model = "None" /\ rf_model = "fitted"
    /\ ensemble_ret.outcome = "raised"
    /\ ensemble_ret.error = "ValueError: models not trained"
    /\ model = "None"
    /\ forecast_ret.outcome = "raised"
    /\ forecast_ret.error = "ValueError"

\* a finished predict_ensemble call on a batch of at least one row, made
\* with both models in place
EnsembleCalledWithModels ==
    /\ Finished(ensemble_ret, "predict_ensemble")
    /\ Len(ensemble_ret.args.X) >= 1
    /\ ~(/\ ensemble_ret.outcome = "raised"
         /\ ensemble_ret.error = "ValueError: models not trained")

\* C11: predict_ensemble returns one value per input row for every batch
\* length, batches no longer than lookback included: on the first lookback
\* rows the output equals the secondary (forest) prediction of the row, on
\* every later row it is w * primary + (1 - w) * secondary.
C11_OneValuePerRow ==
    EnsembleCalledWithModels =>
        /\ ensemble_ret.outcome = "returned"
        /\ LET X == ensemble_ret.args.X
               lookback == ensemble_ret.args.lookback
               w == ensemble_ret.args.lstm_weight
               out == ensemble_ret.result
           IN  /\ Len(out) = Len(X)
               /\ \A i \in DOMAIN X :
                      IF i <= lookback
                      THEN out[i] = 10 * RfPredict(X[i])
                      ELSE out[i] =
                               w * LstmPredict(SubSeq(X, i - lookback, i - 1))
                               + (10 - w) * RfPredict(X[i])

\* what happens instead on a batch no longer than lookback: the LSTM is
\* handed an empty batch of windows and the call ends in its ValueError
C11_ShortBatchRaises ==
    /\ EnsembleCalledWithModels
    /\ Len(ensemble_ret.args.X) = ensemble_ret.args.lookback
    /\ ensemble_ret.outcome = "raised"
    /\ ensemble_ret.error = "ValueError: keras empty batch"

FusionReturned ==
    /\ Finished(spatial_ret, "predict_hyperlocal")
    /\ spatial_ret.outcome = "returned"

\* C12: whatever the AOD, the station AQI values, the hour, the month and
\* the latitude, the hyperlocal AQI that fusion returns lies in [0, 500]
\* (hundredths: 0 .. 50000).
C12_FusedAqiInRange ==
    FusionReturned =>
        /\ 0 <= spatial_ret.result.hyperlocal_aqi
        /\ spatial_ret.result.hyperlocal_aqi <= 50000

\* a result held at the ceiling: the satellite term alone, 150 x 4.0 x 1.3
\* x 1.2 x 0.4, is already 374 and the stations add more than 126
C12_CeilingReached ==
    /\ FusionReturned
    /\ spatial_ret.args.aod_value = 400
    /\ spatial_ret.result.aod_derived_aqi > 50000
    /\ spatial_ret.result.hyperlocal_aqi = 50000

\* a finished fusion call that was given at least one ground station
FusionWithStations ==
    /\ Finished(spatial_ret, "predict_hyperlocal")
    /\ spatial_ret.args.stations_given
    /\ spatial_ret.args.nearby_stations # <<>>

\* clamp[0,500](T(hour) x (0.4 x aodAqi + 0.6 x groundAqi)) in hundredths,
\* for a ground estimate g (an exact fraction)
BlendedAqi(a, g) ==
    LET lat == a.latitude
        hour == IF a.temporal_features.has_hour
                THEN a.temporal_features.hour ELSE 12
        lf == IF 240000 <= lat /\ lat <= 300000 THEN 12
              ELSE IF lat > 300000 THEN 8 ELSE 10
        T == IF hour \in 6..9 THEN 115
             ELSE IF hour \in 18..21 THEN 110
             ELSE IF hour \in 0..5 THEN 105
             ELSE 100
        sf == HyperlocalSeasonFactor(
                  HyperlocalSeason(a.season, a.temporal_features))
        aodAqi == 150 * a.aod_value * sf * lf
        blend == 4 * (aodAqi \div 100) + 6 * ((g.num * 100) \div g.den)
    IN  Round2(Max2(0, Min2(500 * 10 * E4, T * blend)), 1000)

\* the k = 3, power 2 IDW estimates of a fusion call's stations
GroundEstimates(a) ==
    LET calls == { predict_spatial_interpolation(a.latitude, a.longitude,
                       a.nearby_stations, 3, 2, order) :
                     order \in Argsorts(distances_of(a.latitude, a.longitude,
                                                     a.nearby_stations)) }
    IN  { c.result.interpolated_aqi :
            c \in { cc \in calls : cc.outcome = "returned" } }

\* C13: with a non-empty station list, fusion returns
\* clamp[0,500](T(hour) x (0.4 x aodAqi + 0.6 x groundAqi)), aodAqi being
\* 150 x AOD x season factor x latitude factor and groundAqi the k = 3 IDW
\* estimate; season and latitude act on the satellite term only, the
\* time-of-day factor on the blend.
C13_FusionFormula ==
    FusionWithStations =>
        /\ spatial_ret.outcome = "returned"
        /\ \E g \in GroundEstimates(spatial_ret.args) :
               spatial_ret.result.hyperlocal_aqi =
                   BlendedAqi(spatial_ret.args, g)

\* what happens instead when the nearest station is under 100 m away and
\* carries its features as a list: the interpolation's AttributeError ends
\* the fusion call
C13_FusionRaises ==
    /\ FusionWithStations
    /\ spatial_ret.outcome = "raised"
    /\ spatial_ret.error = "AttributeError"

\* a finished fusion call whose ground interpolation, if it had one, went
\* through
FusionPastInterpolation ==
    /\ Finished(spatial_ret, "predict_hyperlocal")
    /\ ~(/\ spatial_ret.outcome = "raised"
         /\ spatial_ret.error \in {"AttributeError", "ValueError"})

\* C14: every fusion result is tagged "high" if and only if the station
\* list was non-empty, and "medium" otherwise (the satellite-only result);
\* no other tag occurs.
C14_ConfidenceTag ==
    FusionPastInterpolation =>
        /\ spatial_ret.outcome = "returned"
        /\ spatial_ret.result.confidence \in {"high", "medium"}
        /\ spatial_ret.result.confidence = "high" <=> FusionWithStations

\* what happens instead of a "medium" result: the satellite-only call
\* (nearby_stations = None) ends in UnboundLocalError
C14_NoMediumResult ==
    /\ Finished(spatial_ret, "predict_hyperlocal")
    /\ ~spatial_ret.args.stations_given
    /\ spatial_ret.outcome = "raised"
    /\ spatial_ret.error = "UnboundLocalError"

\* the engine and the fusion path have both applied their season factor to
\* 150 x AOD for the same month
BothSeasonFactorsApplied ==
    /\ Finished(forecast_ret, "add_seasonal_factor")
    /\ FusionReturned

\* C15 as stated: for every month 1..12 the season factor of the fusion
\* path (season inferred from the month) equals the factor add_seasonal_factor
\* applies for that month.
C15_SameSeasonFactorEveryMonth ==
    BothSeasonFactorsApplied =>
        spatial_ret.result.aod_derived_aqi = Round2(forecast_ret.result, 100)

\* C15: the two season factors are equal for the months December to
\* February (1.3), June to September (0.7) and October, November (1.1); for
\* March, April and May the fusion path applies 0.9 ("summer") where
\* add_seasonal_factor applies 1.0 ("spring").
C15_SameSeasonFactorExceptSpring ==
    BothSeasonFactorsApplied =>
        LET month == MonthOf(forecast_ret.args.date)
            base == forecast_ret.args.base_aqi
        IN  IF month \in {3, 4, 5}
            THEN /\ forecast_ret.result = base
                 /\ spatial_ret.result.aod_derived_aqi =
                        Round2((base * 9) \div 10, 100)
                 /\ spatial_ret.result.season = "summer"
            ELSE /\ spatial_ret.result.aod_derived_aqi =
                        Round2(forecast_ret.result, 100)
                 /\ forecast_ret.result # base

\* both factors applied to 150 x 0.5 in April: 75 from the engine, 67.5 from
\* the fusion path
C15_AprilReached ==
    /\ BothSeasonFactorsApplied
    /\ MonthOf(forecast_ret.args.date) = 4
    /\ forecast_ret.result = 75 * E4
    /\ spatial_ret.result.aod_derived_aqi = 6750

RushHourCallReturned == Finished(forecast_ret, "add_rush_hour_peaks")

\* C20: add_rush_hour_peaks adds a boost on weekdays only: 25 at hour 8 and
\* 30 at hour 20, tapering linearly with the distance from the peak hour
\* inside [7,9] and [19,21] (12.5 and 15 one hour off the peak), and exactly
\* 0 at every other hour and at every hour of a weekend.
C20_RushHourBoost ==
    RushHourCallReturned =>
        LET a == forecast_ret.args
            boost == forecast_ret.result - a.base_aqi
        IN  /\ ~a.is_weekday => boost = 0
            /\ a.is_weekday =>
                   /\ a.hour = 8 => boost = 25 * E4
                   /\ a.hour \in {7, 9} => 2 * boost = 25 * E4
                   /\ a.hour = 20 => boost = 30 * E4
                   /\ a.hour \in {19, 21} => 2 * boost = 30 * E4
                   /\ a.hour \notin (7..9) \cup (19..21) => boost = 0

\* (100, hour 8, weekday) gives 125
C20_MorningPeakReached ==
    /\ RushHourCallReturned
    /\ forecast_ret.args = [base_aqi |-> 100 * E4, hour |-> 8,
                            is_weekday |-> TRUE]
    /\ forecast_ret.result = 125 * E4

RecommendationsReturned ==
    /\ Finished(health_ret, "get_health_recommendations")
    /\ health_ret.outcome = "returned"

\* the horizon values supplied to a get_health_recommendations call
SuppliedForecasts(a) ==
    SelectSeq(<<a.forecast_24h, a.forecast_48h, a.forecast_72h>>,
              LAMBDA f : f.given)

\* C16: whenever at least one horizon value is supplied, zero included, the
\* trend is improving iff the average of the supplied values is below 0.9 x
\* current, worsening iff it is above 1.1 x current, stable otherwise; the
\* trend is absent only when no value is supplied.
C16_TrendFromSuppliedValues ==
    RecommendationsReturned =>
        LET a == health_ret.args
            fs == SuppliedForecasts(a)
            n == Len(fs)
            total == SumSeq([i \in DOMAIN fs |-> fs[i].value])
            trend == health_ret.result.forecast_trend
        IN  IF n = 0 THEN trend = "None"
            ELSE /\ trend \in {"improving", "worsening", "stable"}
                 /\ trend = "improving" <=> 10 * total < 9 * a.aqi * n
                 /\ trend = "worsening" <=> 10 * total > 11 * a.aqi * n

\* what happens instead: a single supplied forecast of 0 against a current
\* AQI of 100 gives no trend
C16_ZeroForecastNoTrend ==
    /\ RecommendationsReturned
    /\ health_ret.args.aqi = 1000
    /\ health_ret.args.forecast_24h = Forecast(0)
    /\ ~health_ret.args.forecast_48h.given
    /\ ~health_ret.args.forecast_72h.given
    /\ health_ret.result.forecast_trend = "None"

\* C17: for a station list of size n >= 1 the interpolation uses exactly
\* min(k, n) contributors, no excluded station is strictly closer to the
\* target than an included one, and the provenance list holds one (distance,
\* AQI, weight) entry per contributor in non-decreasing distance order.
C17_NearestContributors ==
    InterpolationReturned =>
        LET a == spatial_ret.args
            n == Len(a.station_data)
            k == Min2(a.k_nearest, n)
            d == InterpolationDistances
            ns == spatial_ret.result.nearest_stations
        IN  /\ n >= 1
            /\ Len(ns) = k
            /\ spatial_ret.result.k_nearest = k
            /\ \A i, j \in 1..k :
                   i < j => ns[i].distance_km <= ns[j].distance_km
            /\ \E sel \in [1..k -> 1..n] :
                   /\ \A i, j \in 1..k : i # j => sel[i] # sel[j]
                   /\ \A i \in 1..k :
                          /\ ns[i].distance_km = d[sel[i]]
                          /\ ns[i].aqi = a.station_data[sel[i]].aqi
                          /\ DOMAIN ns[i] = {"distance_km", "aqi", "weight"}
                   /\ \A x \in 1..n :
                          (\A i \in 1..k : sel[i] # x) =>
                              \A i \in 1..k : d[x] >= d[sel[i]]

\* three stations given farthest first, two of them selected: the nearest
\* comes first in the provenance and the farthest is left out
C17_FarthestLeftOut ==
    /\ InterpolationReturned
    /\ Len(spatial_ret.args.station_data) = 3
    /\ spatial_ret.args.k_nearest = 2
    /\ LET d == InterpolationDistances
           ns == spatial_ret.result.nearest_stations
       IN  /\ d[1] > d[2] /\ d[2] > d[3]
           /\ Len(ns) = 2
           /\ ns[1].distance_km = d[3]
           /\ ns[2].distance_km = d[2]

\* a returned IDW result (no station under 100 m) with two or more
\* contributors
IdwOfSeveral ==
    /\ InterpolationReturned
    /\ ~InterpolationNearStation
    /\ Len(spatial_ret.result.nearest_stations) >= 2

FracLess(x, y) == x.num * y.den < y.num * x.den

\* how much farther a contributor is moved, in 50 m steps
MaxExtraDistance == 3

\* C18: in the IDW branch with power >= 1 and at least two contributors,
\* moving one contributor farther from the target while the others stay
\* where they are strictly decreases that contributor's normalized weight.
C18_WeightDecaysWithDistance ==
    IdwOfSeveral =>
        LET ns == spatial_ret.result.nearest_stations
            p == spatial_ret.args.idw_power
            d == [i \in DOMAIN ns |-> ns[i].distance_km]
        IN  \A i \in DOMAIN ns, e \in 1..MaxExtraDistance :
                LET farther == [d EXCEPT ![i] = d[i] + e]
                IN  FracLess(IdwWeights(farther, p)[i], ns[i].weight)

\* two contributors at different distances under power 1, the nearer one
\* holding the larger weight
C18_TwoContributorsReached ==
    /\ IdwOfSeveral
    /\ spatial_ret.args.idw_power = 1
    /\ LET ns == spatial_ret.result.nearest_stations
       IN  /\ Len(ns) = 2
           /\ ns[1].distance_km < ns[2].distance_km
           /\ FracLess(ns[2].weight, ns[1].weight)

\* C19: for every non-empty station list, the interpolated AQI that is
\* returned lies between the smallest and the largest AQI of the
\* contributing stations.
C19_BetweenMinAndMax ==
    InterpolationReturned =>
        LET ns == spatial_ret.result.nearest_stations
            v == spatial_ret.result.interpolated_aqi
        IN  /\ Len(ns) >= 1
            /\ v.den > 0
            /\ \E i \in DOMAIN ns : ns[i].aqi * v.den <= v.num
            /\ \E i \in DOMAIN ns : v.num <= ns[i].aqi * v.den

\* an IDW estimate strictly inside the range of three different station
\* AQI values
C19_StrictlyInsideReached ==
    /\ IdwOfSeveral
    /\ LET ns == spatial_ret.result.nearest_stations
           v == spatial_ret.result.interpolated_aqi
       IN  /\ Len(ns) = 3
           /\ ns[1].aqi # ns[2].aqi /\ ns[2].aqi # ns[3].aqi
           /\ \E i \in DOMAIN ns : ns[i].aqi * v.den < v.num
           /\ \E i \in DOMAIN ns : v.num < ns[i].aqi * v.den

\* the season bucket of a month and the factor of a season, written out
SeasonBucket(month) ==
    CASE month \in {12, 1, 2} -> "winter"
      [] month \in {3, 4, 5} -> "spring"
      [] month \in {6, 7, 8, 9} -> "monsoon"
      [] month \in {10, 11} -> "autumn"

SeasonFactorTenths(season) ==
    CASE season = "winter" -> 13
      [] season = "spring" -> 10
      [] season = "monsoon" -> 7
      [] season = "autumn" -> 11

\* C21: for every month 1..12 the season is exactly one of the four seasons,
\* by the buckets {12,1,2} winter, {3,4,5} spring, {6,7,8,9} monsoon and
\* {10,11} autumn, and add_seasonal_factor multiplies the base value by the
\* factor of that season (winter 1.3, spring 1.0, monsoon 0.7, autumn 1.1).
C21_SeasonBuckets ==
    /\ (Finished(forecast_ret, "get_season")
            /\ forecast_ret.outcome = "returned") =>
           /\ MonthOf(forecast_ret.args.date) \in 1..12
           /\ forecast_ret.result = SeasonBucket(MonthOf(forecast_ret.args.date))
    /\ (Finished(forecast_ret, "add_seasonal_factor")
            /\ forecast_ret.outcome = "returned") =>
           LET a == forecast_ret.args
           IN  forecast_ret.result * 10 =
                   a.base_aqi * SeasonFactorTenths(SeasonBucket(MonthOf(a.date)))

\* add_seasonal_factor(100) at a January date has returned 130
C21_JanuaryReached ==
    /\ Finished(forecast_ret, "add_seasonal_factor")
    /\ forecast_ret.outcome = "returned"
    /\ forecast_ret.args.base_aqi = 100 * E4
    /\ MonthOf(forecast_ret.args.date) = 1
    /\ forecast_ret.result = 130 * E4

\* a generate_forecast call that has returned its forecast
ForecastReturned ==
    Finished(forecast_ret, "generate_forecast")
        /\ forecast_ret.outcome = "returned"

\* C22: for every requested forecast_hours, below 1 and above 72 included,
\* a generate_forecast call that succeeds returns exactly
\* min(72, max(1, forecast_hours)) points, and its i-th point (counted from
\* 0) has hour_offset i and the timestamp start_time + i hours.
C22_HorizonClamped ==
    ForecastReturned =>
        LET a == forecast_ret.args
            h == a.forecast_hours
            n == IF h < 1 THEN 1 ELSE IF h > 72 THEN 72 ELSE h
            pts == forecast_ret.result
        IN  /\ DOMAIN pts = 1..n
            /\ \A i \in 0..(n - 1) :
                   /\ pts[i + 1].hour_offset = i
                   /\ pts[i + 1].timestamp = a.start_time + i

\* a request of 73 hours has returned 72 points, the last one 71 hours
\* after start_time
C22_CappedReached ==
    /\ ForecastReturned
    /\ forecast_ret.args.forecast_hours = 73
    /\ Len(forecast_ret.result) = 72
    /\ forecast_ret.result[72].timestamp = forecast_ret.args.start_time + 71

\* the call generate_forecast(f, t, h, p) gives, on the engine as it is, the
\* outcome that the step has just recorded
JustGave(f, t, h, p) ==
    forecast_ret' = generate_forecast(model, model_metrics, f, t, h, p)

\* the same call on the engine as the step leaves it
GivesAfterwards(f, t, h, p) ==
    generate_forecast(model, model_metrics, f, t, h, p)'

ValidCoordinate(lat, lon) ==
    /\ 0 - 900000 <= lat /\ lat <= 900000
    /\ 0 - 1800000 <= lon /\ lon <= 1800000

\* a finished interpolation or fusion call whose target is off the globe
OffGlobeCall ==
    \/ /\ Finished(spatial_ret, "predict_spatial_interpolation")
       /\ ~ValidCoordinate(spatial_ret.args.target_lat,
                            spatial_ret.args.target_lon)
    \/ /\ Finished(spatial_ret, "predict_hyperlocal")
       /\ ~ValidCoordinate(spatial_ret.args.latitude,
                            spatial_ret.args.longitude)

\* C24: a query whose target latitude is outside [-90, 90] or whose
\* longitude is outside [-180, 180] is rejected with InvalidCoordinateError
\* by the interpolation and by the fusion; neither returns a result for it.
C24_OffGlobeRejected ==
    OffGlobeCall =>
        /\ spatial_ret.outcome = "raised"
        /\ spatial_ret.error = "InvalidCoordinateError"

\* an interpolation for the target at 90.0010 N has returned the AQI of the
\* station next to the pole
C24_OffGlobeAnswered ==
    /\ Finished(spatial_ret, "predict_spatial_interpolation")
    /\ spatial_ret.outcome = "returned"
    /\ spatial_ret.args.target_lat = 900010
    /\ spatial_ret.result.interpolated_aqi.num =
           80 * spatial_ret.result.interpolated_aqi.den

\* a step in which generate_forecast(include_patterns=False) has run on an
\* engine that holds a model
PlainForecastStep ==
    /\ model # "None"
    /\ forecast_ret' # forecast_ret
    /\ forecast_ret'.op = "generate_forecast"
    /\ ~forecast_ret'.args.include_patterns

\* C25: with include_patterns=False and a loaded model, generate_forecast
\* does not fail: it returns a forecast whose every point has aqi_forecast
\* equal to base_aqi, with season, is_weekend and is_rush_hour still filled
\* in from the point's timestamp.
C25_PlainForecastReturned ==
    [][PlainForecastStep =>
          /\ forecast_ret'.outcome = "returned"
          /\ \A i \in DOMAIN forecast_ret'.result :
                 LET pt == forecast_ret'.result[i]
                 IN  /\ pt.aqi_forecast = pt.base_aqi
                     /\ pt.season = get_season(pt.timestamp)
                     /\ pt.is_weekend \in BOOLEAN
                     /\ pt.is_rush_hour \in BOOLEAN]_vars

\* generate_forecast(include_patterns=False) has failed on a loaded model
\* at the first point's read of is_weekend
C25_PlainForecastFailed ==
    /\ Finished(forecast_ret, "generate_forecast")
    /\ ~forecast_ret.args.include_patterns
    /\ model # "None"
    /\ forecast_ret.outcome = "raised"
    /\ forecast_ret.error = "UnboundLocalError"

\* Saturday and Sunday, by the calendar
OnWeekend(timestamp) == WeekdayOf(timestamp) \in {5, 6}

\* the forecast value of a point, from the calendar of its own timestamp:
\* the season factor of its month, the weekend reduction on Saturday and
\* Sunday only, the diurnal factor of its hour, and the rush-hour boost of
\* its hour on the other days only
OwnContextAqi(pt) ==
    LET t == pt.timestamp
        seasonal == (pt.base_aqi * SeasonFactorTenths(SeasonBucket(MonthOf(t))))
                        \div 10
        weekly == IF OnWeekend(t) THEN (seasonal * 8) \div 10 ELSE seasonal
        diurnal == add_diurnal_pattern(weekly, HourOf(t))
    IN  IF OnWeekend(t) THEN diurnal
        ELSE diurnal + RushHourBoost(HourOf(t), TRUE)

\* C26: the temporal context of every forecast point comes from the point's
\* own timestamp start_time + hour_offset, not from start_time: over a
\* horizon that runs from a Friday into the weekend, the weekend reduction
\* and the suppression of the rush-hour boost apply to exactly the Saturday
\* and Sunday points, and over a month boundary the season and its factor
\* switch at the first point of the new month.
C26_ContextOfOwnTimestamp ==
    \A pt \in ForecastPoints :
        /\ pt.timestamp = forecast_ret.args.start_time + pt.hour_offset
        /\ pt.is_weekend = OnWeekend(pt.timestamp)
        /\ pt.season = SeasonBucket(MonthOf(pt.timestamp))
        /\ pt.aqi_forecast = OwnContextAqi(pt)

\* a forecast from Friday 2025-02-28 22:00 whose first two points are winter
\* weekday points, whose third point (Saturday 2025-03-01 00:00) is the
\* first weekend point and the first spring point, and whose Saturday 08:00
\* point carries the weekend reduction and no rush-hour boost
C26_FridayIntoMarchReached ==
    /\ ForecastReturned
    /\ Len(forecast_ret.result) = 72
    /\ forecast_ret.args.features = "typical"
    /\ LET pts == forecast_ret.result
       IN  /\ WeekdayOf(pts[1].timestamp) = 4
           /\ ~pts[2].is_weekend /\ pts[2].season = "winter"
           /\ pts[3].is_weekend /\ pts[3].season = "spring"
           /\ HourOf(pts[11].timestamp) = 8
           /\ pts[11].is_weekend
           /\ pts[11].aqi_forecast =
                  add_diurnal_pattern(80 * E4, 8)
           /\ ~pts[59].is_weekend
           /\ HourOf(pts[59].timestamp) = 8
           /\ pts[59].aqi_forecast =
                  add_diurnal_pattern(100 * E4, 8) + 25 * E4

\* the boost that add_rush_hour_peaks has added to a forecast point
BoostAdded(pt) ==
    RushHourBoost(HourOf(pt.timestamp), ~OnWeekend(pt.timestamp))

\* C27: in every forecast point produced with patterns enabled, is_rush_hour
\* is true exactly when the rush-hour adjustment has added a non-zero boost
\* to that point; it is false for every weekend point and for every hour
\* outside [7, 9] and [19, 21].
C27_FlagMatchesBoost ==
    \A pt \in ForecastPoints :
        /\ pt.is_rush_hour <=> (BoostAdded(pt) # 0)
        /\ pt.is_weekend => ~pt.is_rush_hour
        /\ HourOf(pt.timestamp) \notin {7, 8, 9, 19, 20, 21} => ~pt.is_rush_hour

\* a Saturday 08:00 point that is flagged as rush hour and has received no
\* boost
C27_WeekendFlaggedReached ==
    \E pt \in ForecastPoints :
        /\ WeekdayOf(pt.timestamp) = 5
        /\ HourOf(pt.timestamp) = 8
        /\ pt.is_weekend
        /\ pt.is_rush_hour
        /\ pt.aqi_forecast =
               add_diurnal_pattern(
                   add_weekly_variation(
                       add_seasonal_factor(pt.base_aqi, pt.timestamp), TRUE), 8)

\* the entry that a returned generate_forecast call leaves in the history
HistoryEntryOf(ret) ==
    [start_time |-> ret.args.start_time,
     forecast_hours |->
         IF ret.args.forecast_hours < 1 THEN 1
         ELSE IF ret.args.forecast_hours > 72 THEN 72
         ELSE ret.args.forecast_hours]

\* a step in which a call has left a new outcome in forecast_ret
NewOutcome(opname, kind) ==
    /\ forecast_ret' # forecast_ret
    /\ forecast_ret'.op = opname
    /\ forecast_ret'.outcome = kind

\* C28: forecast_history gains exactly one entry, appended at the end and
\* recording the clamped forecast_hours, for each generate_forecast call
\* that returns, and is left as it was by a call that raises; no operation
\* removes or reorders entries, so its length is the number of calls that
\* have returned.
C28_HistoryAppendOnly ==
    [][/\ forecast_history' # forecast_history =>
              /\ forecast_ret'.op = "generate_forecast"
              /\ forecast_ret'.outcome = "returned"
              /\ forecast_history' =
                     Append(forecast_history, HistoryEntryOf(forecast_ret'))
       /\ NewOutcome("generate_forecast", "returned") =>
              forecast_history' =
                  Append(forecast_history, HistoryEntryOf(forecast_ret'))
       /\ NewOutcome("generate_forecast", "raised") =>
              forecast_history' = forecast_history]_vars

\* two calls have returned, the first for 73 hours and the second for 0
\* hours: the history holds 72 and then 1
C28_TwoEntriesReached ==
    /\ ForecastReturned
    /\ forecast_ret.args.forecast_hours = 0
    /\ Len(forecast_history) = 2
    /\ forecast_history[1].forecast_hours = 72
    /\ forecast_history[2].forecast_hours = 1
    /\ forecast_history[2].start_time = forecast_ret.args.start_time

\* a base value that has been taken through the four patterns
PatternsApplied ==
    Finished(forecast_ret, "include_patterns")
        /\ forecast_ret.outcome = "returned"

\* C29: for every base value >= 0 and every hour, day of the week and
\* month, the pattern-adjusted AQI is >= 0: every multiplicative factor is
\* strictly positive (the diurnal factor lies in [0.7, 1.3]) and the
\* rush-hour boost is never negative.
C29_PatternsKeepNonNegative ==
    (PatternsApplied /\ forecast_ret.args.base_aqi >= 0) =>
        LET t == forecast_ret.args.forecast_time
        IN  /\ forecast_ret.result >= 0
            /\ SEASONAL_FACTORS[get_season(t)] > 0
            /\ WEEKEND_REDUCTION > 0
            /\ 70 <= DiurnalFactorPct(HourOf(t))
            /\ DiurnalFactorPct(HourOf(t)) <= 130
            /\ RushHourBoost(HourOf(t), WeekdayOf(t) < 5) >= 0

\* the base 100 at 02:00 of a monsoon Sunday, where every factor is at its
\* smallest: 100 x 0.7 x 0.8 x 0.7 = 39.2
C29_SmallestFactorsReached ==
    /\ PatternsApplied
    /\ forecast_ret.args.base_aqi = 100 * E4
    /\ HourOf(forecast_ret.args.forecast_time) = 2
    /\ WeekdayOf(forecast_ret.args.forecast_time) = 6
    /\ MonthOf(forecast_ret.args.forecast_time) = 7
    /\ forecast_ret.result = 392000

\* a step in which make_request_with_retry returns
RequestReturns == request.pc = "loop" /\ request'.pc = "done"

\* C30: make_request_with_retry makes at most retries + 1 attempts, stops
\* at the first attempt that succeeds and returns its response; whenever it
\* returns None every attempt has failed and the URL has been appended to
\* failed_requests exactly once; a call that succeeds never adds the URL to
\* failed_requests.
C30_RetryThenRecord ==
    [][/\ RequestReturns =>
              /\ Len(request'.outcomes) <= request'.retries + 1
              /\ \A i \in 1..(Len(request'.outcomes) - 1) :
                     request'.outcomes[i] = "RequestException"
              /\ request'.response # "None" =>
                     /\ request'.outcomes[Len(request'.outcomes)] = "ok"
                     /\ failed_requests' = failed_requests
              /\ request'.response = "None" =>
                     /\ \A i \in DOMAIN request'.outcomes :
                            request'.outcomes[i] = "RequestException"
                     /\ failed_requests' =
                            Append(failed_requests, request.url)
       /\ ~RequestReturns => failed_requests' = failed_requests]_vars

\* a call with retries = -1 has returned None without an attempt and
\* without a record of the URL
C30_NothingTriedNothingRecorded ==
    /\ request.pc = "done"
    /\ request.retries = 0 - 1
    /\ request.response = "None"
    /\ request.outcomes = <<>>
    /\ failed_requests = <<>>

=============================================================================
